---- MODULE Spec2Model ----
(***************************************************************************)
(* State-machine model of the ADXL345 acquisition firmware                 *)
(* (Engrove/adxl345-prod): the cooperative main loop of main.c, the        *)
(* command dispatcher of cmd_handler.c, the burst manager of burst_mgr.c,  *)
(* the BLOCKS transport of transport_blocks.c, the trigger logic, the      *)
(* countdown, the sample ring of sensor_hal.c and the TX/RX bookkeeping of *)
(* comm.c.                                                                 *)
(*                                                                         *)
(* Handlers are operators on a record s that gathers the program's objects *)
(* (s.ctx, s.g_bm, s.g_tb, ...); an action applies the handlers of one     *)
(* main-loop step in the order of the code and commits the result.         *)
(* Time is kept as the age (now - timestamp) of every running timer.       *)
(***************************************************************************)
EXTENDS Integers, Sequences, FiniteSets, TLC

\* ------------------------------------------------------------------------
\* Program constants (values of the source)
\* ------------------------------------------------------------------------
PROTO_BLOCK_TIMEOUT_MS == 1000
PROTO_MAX_RETRIES == 3
PROTO_WINDOW_DEFAULT == 4
PROTO_BLOCK_LINES_DEFAULT == 128
TB_MAX_INFLIGHT == 8
PROTO_MAX_LINE == 256
PROTO_CRC16_POLY == 4129
PROTO_CRC16_INIT == 65535
DEFAULT_BURST_MS == 5000
DEFAULT_ODR_HZ == 800
DEFAULT_HB_MS == 1000
DEFAULT_STREAM_HZ == 100
DEFAULT_HOLD_MS == 1500
DEFAULT_WIN_MS == 100
\* k_mult is kept in thousandths, the resolution of api_parse_float_fixed3
DEFAULT_K_MULT == 5000
REF_CAPTURE_DURATION_MS == 2000
ARM_CAPTURE_MS == 2000
STALL_MS == 500
COUNTDOWN_STEP_MS == 1000
COUNTDOWN_DEFAULT_S == 5
ABORT_CODE_TIMEOUT == 400
ABORT_CODE_STALL == 999
FW_VERSION == "3.3.7"
PROTO_VERSION == "3.3.3"

\* ------------------------------------------------------------------------
\* Bounds of the model.  The first five stand for build-time sizes of the
\* firmware that are scaled down to keep the state space finite:
\*   Window       for PROTO_WINDOW_DEFAULT (4) as passed to BM_Init,
\*   BlockLines   for PROTO_BLOCK_LINES_DEFAULT (128) as used for blocks,
\*   TB_MAX_QUEUE for the 16 queue slots of the transport,
\*   SAMPLES_PER_BURST for the 8000-sample burst buffer,
\*   RingCap, DmaBatch for the sample ring and the 32-sample DMA batch.
\* ------------------------------------------------------------------------
Window == 2
BlockLines == 2
MaxSeq == 2          \* LIVE samples handed over in one streaming session
TB_MAX_QUEUE == 3
SAMPLES_PER_BURST == 5
RingCap == 5
DmaBatch == 5
\* one Tick advances HAL_GetTick() by TickMs milliseconds
TickMs == 1000
\* largest burst id handed out (cap of g_burst_id_counter)
MaxBursts == 1
\* diagnostic counters saturate at MaxCount ("MaxCount or more")
MaxCount == 1
\* host lines handled by one COMM_Process_Budgeted call
\* samples of a DMA batch that is smaller than a burst (the FIFO watermark
\* of the code is far below SAMPLES_PER_BURST)
StallBatch == 2
\* bytes that wait in the RX ring when CmdHandler_ProcessInput runs
MaxRxBytes == 2
TwoBursts == 2
HbAgeCap == 1000
MaxLinesPerCall == 1
\* the byte-level TX ring: COMM_TX_RING_SIZE (4096) and COMM_TX_DMA_SIZE
\* (512) scaled down, messages of 1 .. MaxMsgLen bytes, MaxMsgs writes
COMM_TX_RING_SIZE == 4
COMM_TX_DMA_SIZE == 2
MaxMsgLen == 3
MaxMsgs == 4
StreamLinesPerCall == 2
\* sensor_hal.c, scaled: slots of the sample ring (512), samples per DMA
\* buffer (32, also the depth of the sensor FIFO), FIFO watermark (16)
SAMPLE_RING_BUFFER_SIZE == 4
DMA_RX_BUF_SAMPLES == 2
FIFO_WATERMARK == 1
\* samples the sensor produces in a run
MaxAcq == 4
\* blocks of a burst that is longer than the transport queue (the firmware
\* sends up to 63 blocks of 128 lines through 16 queue slots)
QueueBlocks == 4
RetxBlocks == 2

Min(a, b) == IF a < b THEN a ELSE b
Sat(n) == Min(n, MaxCount)
MaxBlk == (SAMPLES_PER_BURST + BlockLines - 1) \div BlockLines

\* ------------------------------------------------------------------------
\* State
\* ------------------------------------------------------------------------
VARIABLES
    ctx,     \* g_app_context
    g_bm,    \* burst_mgr.c: low-level session context
    g_tb,    \* transport_blocks.c: queue, inflight set, burst parameters
    burst,   \* burst_mgr.c: file-level statics of the high-level manager
    g_cd,    \* countdown.c
    trig,    \* trigger_logic.c statics
    sensor,  \* sensor_hal.c: sampling flag and sample ring
    comm,    \* comm.c: TX ring state, RX line buffer, drop/overflow counters
    stream,  \* streaming.c statics
    tx,      \* burst lines accepted by the TX layer during the last step
    hist,    \* what the wire has carried of the latest burst (history)
    txr,     \* comm.c: the TX ring and its DMA chunk, byte by byte
    acq      \* sensor_hal.c: the acquisition chain, sample by sample

vars == <<ctx, g_bm, g_tb, burst, g_cd, trig, sensor, comm, stream, tx, hist,
          txr, acq>>

\* tb_entry_t after memset(e, 0, sizeof *e); t_last_tx_ms = 0 lies at least
\* one timeout in the past
EntryZero ==
    [lines |-> 0, blk |-> 0, user |-> 0, retries |-> 0, sent |-> FALSE,
     age |-> PROTO_BLOCK_TIMEOUT_MS, inflight |-> FALSE, done |-> FALSE,
     crc16 |-> 0]

Slots == 0 .. (TB_MAX_QUEUE - 1)

\* ------------------------------------------------------------------------
\* comm.c: transmit side
\* ------------------------------------------------------------------------
\* The TX ring is kept as idle (empty, DMA stopped), busy (room left) or
\* full (no room for another line).  Whether a written line leaves the ring
\* full depends on line lengths and on the UART; it is the input s.in.fill.
\*
\* Telemetry_Write as used by COMM_Sendf/COMM_Send: the line is dropped and
\* counted when the TX ring has no room for it
COMM_Sendf(s, line) ==
    IF s.comm.tx_state = "full"
    THEN [s EXCEPT !.comm.s_tx_drop_count = Sat(@ + 1)]
    ELSE [s EXCEPT !.out = Append(@, line),
                   !.comm.tx_state = IF s.in.fill THEN "full" ELSE "busy"]

\* Telemetry_WriteBlocking / COMM_SendfBlocking: waits for room, never drops
COMM_SendfBlocking(s, line) ==
    [s EXCEPT !.out = Append(@, line),
              !.comm.tx_state = IF s.in.fill THEN "full" ELSE "busy"]

\* Telemetry_Flush: waits (at most 50 ms) for the TX ring to drain
Telemetry_Flush(s) ==
    [s EXCEPT !.comm.tx_state = IF s.in.flushed THEN "idle" ELSE @]

COMM_TxIsIdle(s) == s.comm.tx_state = "idle"

\* ------------------------------------------------------------------------
\* transport_blocks.c
\* ------------------------------------------------------------------------
_queue_full(s) == s.g_tb.q_count >= TB_MAX_QUEUE
_queue_empty(s) == s.g_tb.q_count = 0

\* returns the state with the slot at q_tail zeroed and taken
_queue_push(s) ==
    [s EXCEPT !.g_tb.queue[s.g_tb.q_tail] = EntryZero,
              !.g_tb.q_tail = (@ + 1) % TB_MAX_QUEUE,
              !.g_tb.q_count = @ + 1]

_queue_pop(s) ==
    [s EXCEPT !.g_tb.q_head = (@ + 1) % TB_MAX_QUEUE,
              !.g_tb.q_count = @ - 1]

_inflight_add(s, e) ==
    IF Len(s.g_tb.inflight) < TB_MAX_INFLIGHT
    THEN [s EXCEPT !.g_tb.inflight = Append(@, e),
                   !.g_tb.queue[e].inflight = TRUE]
    ELSE s

_inflight_remove_index(s, idx) ==
    IF idx > Len(s.g_tb.inflight) THEN s
    ELSE [s EXCEPT !.g_tb.inflight =
              SubSeq(@, 1, idx - 1) \o SubSeq(@, idx + 1, Len(@))]

\* index (1-based) of the first inflight pointer whose entry carries blk and
\* is flagged inflight; 0 when there is none
_inflight_find_blk(s, blk) ==
    LET hits == {i \in 1 .. Len(s.g_tb.inflight) :
                    /\ s.g_tb.queue[s.g_tb.inflight[i]].blk = blk
                    /\ s.g_tb.queue[s.g_tb.inflight[i]].inflight}
    IN IF hits = {} THEN 0 ELSE CHOOSE i \in hits : \A j \in hits : i <= j

_abort_all(s) ==
    LET marked == [e \in Slots |->
                     IF \E i \in 1 .. Len(s.g_tb.inflight) : s.g_tb.inflight[i] = e
                     THEN [s.g_tb.queue[e] EXCEPT !.inflight = FALSE, !.done = TRUE]
                     ELSE s.g_tb.queue[e]]
    IN [s EXCEPT !.g_tb.queue = marked,
                 !.g_tb.inflight = <<>>,
                 !.g_tb.q_head = (@ + s.g_tb.q_count) % TB_MAX_QUEUE,
                 !.g_tb.q_count = 0,
                 !.g_tb.burst_active = FALSE]

TB_Init(window, blk_lines, max_retries) ==
    [window |-> IF window = 0 \/ window > TB_MAX_INFLIGHT
                THEN TB_MAX_INFLIGHT ELSE window,
     blk_lines |-> IF blk_lines = 0 THEN BlockLines ELSE blk_lines,
     max_retries |-> IF max_retries = 0 THEN PROTO_MAX_RETRIES ELSE max_retries,
     burst_id |-> 0, next_blk |-> 0, burst_active |-> FALSE,
     queue |-> [e \in Slots |-> EntryZero],
     q_head |-> 0, q_tail |-> 0, q_count |-> 0,
     inflight |-> <<>>]

\* TB_BeginBurst that starts the block numbers at 0: C5 must reject it
TB_BeginBurst_from_zero(s, burst_id) ==
    [s EXCEPT !.g_tb.burst_id = burst_id,
              !.g_tb.next_blk = 0,
              !.g_tb.burst_active = TRUE,
              !.g_tb.q_head = 0, !.g_tb.q_tail = 0, !.g_tb.q_count = 0,
              !.g_tb.inflight = <<>>]

TB_BeginBurst(s, burst_id) ==
    [s EXCEPT !.g_tb.burst_id = burst_id,
              !.g_tb.next_blk = 1,
              !.g_tb.burst_active = TRUE,
              !.g_tb.q_head = 0, !.g_tb.q_tail = 0, !.g_tb.q_count = 0,
              !.g_tb.inflight = <<>>]

TB_EndBurst(s) == [s EXCEPT !.g_tb.burst_active = FALSE]

TB_IsIdle(s) == Len(s.g_tb.inflight) = 0 /\ _queue_empty(s)

\* ------------------------------------------------------------------------
\* burst_mgr.c, section 1: end-of-burst requests
\* ------------------------------------------------------------------------
BM_EndOk(s) ==
    IF ~s.g_bm.active THEN s
    ELSE [s EXCEPT !.g_bm.aborted = FALSE, !.g_bm.done_pending = TRUE]

BM_EndAborted(s, code) ==
    IF ~s.g_bm.active THEN s
    ELSE [s EXCEPT !.g_bm.aborted = TRUE,
                   !.g_bm.abort_code = code,
                   !.g_bm.done_pending = TRUE]

\* ------------------------------------------------------------------------
\* transport_blocks.c: sending
\* ------------------------------------------------------------------------
\* GenDataLine (burst_mgr.c): line `index` of the block whose generator
\* context is `user`; the sample index is base + index, base = user * lines
\* per block.  A negative result means "no line".
GenDataLine(index, user) ==
    LET i == user * BlockLines + index
    IN IF i >= SAMPLES_PER_BURST THEN -1 ELSE i

\* The text GenDataLine writes for sample i, as bytes.  The formatted
\* timestamp and accelerations of the sample are kept as one digit, the
\* reading stored for the sample; the line starts with "D" and ends with
\* CR LF.
DataLineText(s, i) == <<68, 48 + s.burst.burst_data[i], 13, 10>>

\* protocol_crc16.h.  a ^ b on uint16_t: bit k of the result is the sum
\* modulo 2 of bit k of a and bit k of b
XorBit(a, b, k) == (((a \div (2 ^ k)) + (b \div (2 ^ k))) % 2) * (2 ^ k)

Xor16(a, b) ==
    XorBit(a, b, 0) + XorBit(a, b, 1) + XorBit(a, b, 2) + XorBit(a, b, 3)
    + XorBit(a, b, 4) + XorBit(a, b, 5) + XorBit(a, b, 6) + XorBit(a, b, 7)
    + XorBit(a, b, 8) + XorBit(a, b, 9) + XorBit(a, b, 10) + XorBit(a, b, 11)
    + XorBit(a, b, 12) + XorBit(a, b, 13) + XorBit(a, b, 14) + XorBit(a, b, 15)

\* the loop of proto_crc16_update_byte, n rounds left
RECURSIVE CrcRounds(_, _)
CrcRounds(crc, n) ==
    IF n = 0 THEN crc
    ELSE CrcRounds(IF crc >= 32768
                   THEN Xor16((crc * 2) % 65536, PROTO_CRC16_POLY)
                   ELSE (crc * 2) % 65536,
                   n - 1)

proto_crc16_update_byte(crc, b) ==
    CrcRounds(Xor16(crc, (b * 256) % 65536), 8)

RECURSIVE proto_crc16_update(_, _)
proto_crc16_update(crc, data) ==
    IF crc \notin 0 .. 65535 \/ data = <<>> THEN crc
    ELSE proto_crc16_update(proto_crc16_update_byte(crc, Head(data)), Tail(data))

\* the loop of _compute_crc16 from line i on, crc accumulated so far
RECURSIVE ComputeCrcFrom(_, _, _, _, _)
ComputeCrcFrom(s, user, lines, i, crc) ==
    IF i >= lines THEN crc
    ELSE LET n == GenDataLine(i, user)
         IN IF n < 0 THEN 0
            ELSE ComputeCrcFrom(s, user, lines, i + 1,
                                proto_crc16_update(crc, DataLineText(s, n)))

_compute_crc16(s, user, lines) ==
    ComputeCrcFrom(s, user, lines, 0, PROTO_CRC16_INIT)

RECURSIVE _send_data(_, _, _)
_send_data(s, e, i) ==
    IF i >= s.g_tb.queue[e].lines THEN s
    ELSE LET n == GenDataLine(i, s.g_tb.queue[e].user)
             s1 == IF n >= 0
                   THEN COMM_SendfBlocking(s, [type |-> "DATA",
                                               blk |-> s.g_tb.queue[e].blk,
                                               idx |-> n,
                                               text |-> DataLineText(s, n)])
                   ELSE s
         IN _send_data(s1, e, i + 1)

\* BLOCK_HEADER, the DATA lines in index order, BLOCK_END; the header record
\* also carries the entry's retry count at the time of sending
_send_block(s, e) ==
    LET ent == s.g_tb.queue[e]
        s1 == COMM_SendfBlocking(s, [type |-> "BLOCK_HEADER",
                                     burst_id |-> s.g_tb.burst_id,
                                     blk |-> ent.blk, lines |-> ent.lines,
                                     crc16 |-> ent.crc16,
                                     retries |-> ent.retries])
        s2 == _send_data(s1, e, 0)
        s3 == COMM_SendfBlocking(s2, [type |-> "BLOCK_END", blk |-> ent.blk,
                                      crc16 |-> ent.crc16])
    IN [s3 EXCEPT !.g_tb.queue[e].age = 0,
                  !.g_tb.queue[e].sent = TRUE,
                  !.g_tb.queue[e].inflight = TRUE]

\* result: st (state afterwards), ret (1 accepted, 0 refused)
TB_EnqueueBlock(s, lines, user) ==
    IF ~s.g_tb.burst_active \/ lines = 0 \/ lines > s.g_tb.blk_lines
    THEN [st |-> s, ret |-> 0]
    ELSE IF _queue_full(s) THEN [st |-> s, ret |-> 0]
    ELSE LET e == s.g_tb.q_tail
             s1 == _queue_push(s)
         IN [st |-> [s1 EXCEPT !.g_tb.queue[e] =
                         [EntryZero EXCEPT !.lines = lines,
                                           !.user = user,
                                           !.blk = s.g_tb.next_blk,
                                           !.crc16 = _compute_crc16(s, user, lines)],
                                !.g_tb.next_blk = @ + 1],
             ret |-> 1]

\* _pump_send with the window test off by one (<= for <): C6 must reject it
RECURSIVE _pump_send_off_by_one(_)
_pump_send_off_by_one(s) ==
    IF Len(s.g_tb.inflight) <= s.g_tb.window /\ ~(s.g_tb.q_count = 0)
    THEN LET e == s.g_tb.q_head
             s1 == [s EXCEPT !.g_tb.q_head = (@ + 1) % TB_MAX_QUEUE,
                             !.g_tb.q_count = @ - 1]
         IN _pump_send_off_by_one(_inflight_add(_send_block(s1, e), e))
    ELSE s

RECURSIVE _pump_send(_)
_pump_send(s) ==
    IF Len(s.g_tb.inflight) < s.g_tb.window /\ ~_queue_empty(s)
    THEN LET e == s.g_tb.q_head
         IN _pump_send(_inflight_add(_send_block(_queue_pop(s), e), e))
    ELSE s

\* the loop of _pump_timeouts from inflight index i (1-based); ages are the
\* ones read against `now`, taken before the loop
RECURSIVE _pump_timeouts_from(_, _)
_pump_timeouts_from(s, i) ==
    IF i > Len(s.g_tb.inflight) THEN s
    ELSE LET e == s.g_tb.inflight[i]
             ent == s.g_tb.queue[e]
         IN IF ~ent.inflight
            THEN _pump_timeouts_from(_inflight_remove_index(s, i), i)
            ELSE IF ent.age >= PROTO_BLOCK_TIMEOUT_MS
            THEN IF ent.retries < s.g_tb.max_retries
                 THEN _pump_timeouts_from(
                          _send_block([s EXCEPT !.g_tb.queue[e].retries = @ + 1], e),
                          i + 1)
                 ELSE _pump_timeouts_from(
                          BM_EndAborted(_abort_all(s), ABORT_CODE_TIMEOUT), i)
            ELSE _pump_timeouts_from(s, i + 1)

_pump_timeouts(s) == _pump_timeouts_from(s, 1)

TB_Pump(s) ==
    IF ~s.g_tb.burst_active THEN s
    ELSE _pump_timeouts(_pump_send(s))

\* TB_OnAckBlk that marks the block done and leaves it inflight: C39 must
\* reject it
TB_OnAckBlk_stays_inflight(s, blk) ==
    LET idx == _inflight_find_blk(s, blk)
    IN IF idx = 0 THEN s
       ELSE [s EXCEPT !.g_tb.queue[s.g_tb.inflight[idx]].done = TRUE]

TB_OnAckBlk(s, blk) ==
    LET idx == _inflight_find_blk(s, blk)
    IN IF idx = 0 THEN s
       ELSE LET e == s.g_tb.inflight[idx]
            IN _inflight_remove_index(
                   [s EXCEPT !.g_tb.queue[e].done = TRUE,
                             !.g_tb.queue[e].inflight = FALSE], idx)

\* TB_OnNackBlk without the test of the retry budget: C4 must reject it
TB_OnNackBlk_unbounded(s, blk, code) ==
    LET idx == _inflight_find_blk(s, blk)
    IN IF idx = 0 THEN s
       ELSE LET e == s.g_tb.inflight[idx]
            IN _send_block([s EXCEPT !.g_tb.queue[e].retries = @ + 1], e)

TB_OnNackBlk(s, blk, code) ==
    LET idx == _inflight_find_blk(s, blk)
    IN IF idx = 0 THEN s
       ELSE LET e == s.g_tb.inflight[idx]
            IN IF s.g_tb.queue[e].retries < s.g_tb.max_retries
               THEN _send_block([s EXCEPT !.g_tb.queue[e].retries = @ + 1], e)
               ELSE BM_EndAborted(_abort_all(s),
                                  IF code # 0 THEN code ELSE ABORT_CODE_TIMEOUT)

\* sscanf("%lu") followed by the cast to uint16_t
_parse_u16(v) == v % 65536

\* result: st, ret (1 when the line was an ACK_BLK/NACK_BLK with a blk field)
TB_HandleHostLine(s, line) ==
    IF line.cmd = "ACK_BLK" /\ line.has_arg
    THEN [st |-> TB_OnAckBlk(s, _parse_u16(line.arg)), ret |-> 1]
    ELSE IF line.cmd = "NACK_BLK" /\ line.has_arg
    THEN [st |-> TB_OnNackBlk(s, _parse_u16(line.arg), line.code), ret |-> 1]
    ELSE [st |-> s, ret |-> 0]

\* ------------------------------------------------------------------------
\* burst_mgr.c, section 1: session
\* ------------------------------------------------------------------------
_type_str(t) ==
    CASE t = "BM_TYPE_WEIGHT" -> "WEIGHT"
      [] t = "BM_TYPE_DAMP_TRG" -> "DAMP_TRG"
      [] t = "BM_TYPE_DAMP_CD" -> "DAMP_CD"
      [] OTHER -> "UNKNOWN"

\* memset(&g_bm, 0, sizeof g_bm): BM_TYPE_WEIGHT is the enum's zero
BM_Init ==
    [active |-> FALSE, waiting_ack_complete |-> FALSE, type |-> "BM_TYPE_WEIGHT",
     burst_id |-> 0, done_pending |-> FALSE, aborted |-> FALSE,
     abort_code |-> 0, samples |-> 0]

BM_IsActive(s) == s.g_bm.active

BM_Begin(s, type, burst_id, samples) ==
    LET s1 == [s EXCEPT !.g_bm.type = type,
                        !.g_bm.burst_id = burst_id,
                        !.g_bm.active = TRUE,
                        !.g_bm.waiting_ack_complete = FALSE,
                        !.g_bm.samples = samples]
        s2 == COMM_Sendf(s1, [type |-> "DATA_HEADER", kind |-> _type_str(type),
                              burst_id |-> burst_id, samples |-> samples])
    IN TB_BeginBurst(s2, burst_id)

BM_Pump(s) ==
    IF ~s.g_bm.active THEN s
    ELSE LET s1 == TB_Pump(s)
         IN IF s1.g_bm.done_pending /\ ~s1.g_bm.waiting_ack_complete /\ TB_IsIdle(s1)
            THEN LET s2 == COMM_Sendf(s1,
                               IF s1.g_bm.aborted
                               THEN [type |-> "COMPLETE",
                                     burst_id |-> s1.g_bm.burst_id,
                                     reason |-> "aborted",
                                     code |-> s1.g_bm.abort_code]
                               ELSE [type |-> "COMPLETE",
                                     burst_id |-> s1.g_bm.burst_id,
                                     reason |-> "normal",
                                     code |-> 0])
                 IN [s2 EXCEPT !.g_bm.waiting_ack_complete = TRUE,
                               !.g_bm.done_pending = FALSE]
            ELSE s1

\* result: st, ret (1 when the line was consumed by the burst layer)
BM_HandleHostLine(s, line) ==
    LET r == TB_HandleHostLine(s, line)
        fin == [s EXCEPT !.g_bm.waiting_ack_complete = FALSE,
                         !.g_bm.active = FALSE]
    IN IF r.ret = 1 THEN r
       ELSE IF line.cmd = "ACK_COMPLETE"
       THEN IF ~line.has_arg
            THEN IF s.g_bm.active /\ s.g_bm.waiting_ack_complete
                 THEN [st |-> TB_EndBurst(fin), ret |-> 1]
                 ELSE [st |-> s, ret |-> 0]
            ELSE IF s.g_bm.active /\ s.g_bm.burst_id = line.arg
                 THEN [st |-> TB_EndBurst(fin), ret |-> 1]
                 ELSE [st |-> s, ret |-> 0]
       ELSE [st |-> s, ret |-> 0]

\* ------------------------------------------------------------------------
\* telemetry.c, app_context.c
\* ------------------------------------------------------------------------
op_mode_to_str(m) ==
    CASE m = "OP_MODE_INIT" -> "INIT"
      [] m = "OP_MODE_IDLE" -> "IDLE"
      [] m = "OP_MODE_WAIT_CAL_ZERO" -> "WAIT_CAL_ZERO"
      [] m = "OP_MODE_TRG_CAL_ZERO" -> "TRG_CAL_ZERO"
      [] m = "OP_MODE_WAIT_ARM" -> "WAIT_ARM"
      [] m = "OP_MODE_ARMED" -> "ARMED"
      [] m = "OP_MODE_COUNTDOWN" -> "COUNTDOWN"
      [] m = "OP_MODE_BURST" -> "BURST"
      [] m = "OP_MODE_BURST_SENDING" -> "BURST_SENDING"
      [] OTHER -> "UNKNOWN"

trg_state_to_str(t) ==
    CASE t = "TRG_STATE_ARMED" -> "armed"
      [] t = "TRG_STATE_IN_HOLDOFF" -> "holdoff"
      [] OTHER -> "idle"

Telemetry_SendStatus(s) ==
    IF s.ctx.op_mode = "OP_MODE_BURST_SENDING" /\ BM_IsActive(s) THEN s
    ELSE COMM_Sendf(s, [type |-> "STATUS",
                        op |-> op_mode_to_str(s.ctx.op_mode),
                        trg |-> trg_state_to_str(s.ctx.trg_state),
                        axis |-> "MAG"])

Telemetry_SendACK(s, subject) ==
    COMM_Sendf(s, [type |-> "ACK", subject |-> subject])

Telemetry_SendNACK(s, subject, reason, code) ==
    COMM_Sendf(s, [type |-> "NACK", subject |-> subject,
                   reason |-> reason, code |-> code])

Telemetry_SendERROR(s, src, code, msg) ==
    COMM_Sendf(s, [type |-> "ERROR", src |-> src, code |-> code, msg |-> msg])

\* Telemetry_Pump: the heartbeat.  g_hb_age is the time since g_hb_last_ms
\* (the tick, host time and buffer figures of the line are not kept)
Telemetry_Pump(s) ==
    IF ~BM_IsActive(s) /\ s.ctx.cfg.hb_ms > 0 /\ s.comm.g_hb_age >= s.ctx.cfg.hb_ms
    THEN COMM_Sendf([s EXCEPT !.comm.g_hb_age = 0], [type |-> "HB"])
    ELSE s

Telemetry_SendCfg(s) ==
    COMM_Sendf(s, [type |-> "CFG", odr_hz |-> s.ctx.cfg.odr_hz,
                   burst_ms |-> s.ctx.cfg.burst_ms, hb_ms |-> s.ctx.cfg.hb_ms,
                   stream_rate_hz |-> s.ctx.cfg.stream_rate_hz])

Telemetry_SendTrgSettings(s) ==
    COMM_Sendf(s, [type |-> "TRG_SETTINGS",
                   k_mult |-> s.ctx.trigger_settings.k_mult,
                   hold_ms |-> s.ctx.trigger_settings.hold_ms])

Telemetry_SendStreamStartACK(s) ==
    COMM_Sendf(s, [type |-> "ACK", subject |-> "STREAM_START",
                   rate_hz |-> s.ctx.cfg.stream_rate_hz,
                   div |-> s.stream.g_stream_div])

AppContext_Init ==
    [op_mode |-> "OP_MODE_INIT", trg_state |-> "TRG_STATE_IDLE",
     stop_flag |-> FALSE, is_dumping |-> FALSE,
     burst_abort_pending |-> FALSE, test_trigger_flag |-> FALSE,
     diag |-> [i2c_fail |-> 0, ring_ovf |-> 0, live_drops |-> 0,
               hb_pauses |-> 0, last_err |-> 0],
     tsync |-> [has_sync |-> FALSE],
     cfg |-> [hb_ms |-> DEFAULT_HB_MS, burst_ms |-> DEFAULT_BURST_MS,
              odr_hz |-> DEFAULT_ODR_HZ, stream_rate_hz |-> DEFAULT_STREAM_HZ],
     trigger_settings |-> [k_mult |-> DEFAULT_K_MULT, win_ms |-> DEFAULT_WIN_MS,
                           hold_ms |-> DEFAULT_HOLD_MS],
     state_age |-> 0]

AppContext_SetOpMode(s, new_mode) ==
    IF s.ctx.op_mode = new_mode THEN s
    ELSE Telemetry_SendStatus([s EXCEPT !.ctx.op_mode = new_mode,
                                        !.ctx.state_age = 0])

\* ------------------------------------------------------------------------
\* sensor_hal.c: sampling flag and sample ring (number of queued samples)
\* ------------------------------------------------------------------------
Sensor_StartSampling(s) ==
    [s EXCEPT !.sensor.ring = 0, !.sensor.g_sampling_active = TRUE]

Sensor_StopSampling(s) == [s EXCEPT !.sensor.g_sampling_active = FALSE]

Sensor_IsSampling(s) == s.sensor.g_sampling_active

Sensor_SnapODR(req) ==
    IF req >= 3200 THEN 3200
    ELSE IF req >= 1600 THEN 1600
    ELSE IF req >= 800 THEN 800
    ELSE IF req >= 400 THEN 400
    ELSE IF req >= 200 THEN 200
    ELSE 100

\* Telemetry_SendPreview with Sensor_GetPreviewSnapshot: the samples that
\* wait in the ring are copied (the ring indices are reset if sampling was
\* running) and written as PREVIEW lines
RECURSIVE PreviewLines(_, _)
PreviewLines(s, n) ==
    IF n = 0 THEN s
    ELSE PreviewLines(COMM_Sendf(s, [type |-> "PREVIEW"]), n - 1)

Telemetry_SendPreview(s) ==
    LET n == s.sensor.ring
        s1 == IF Sensor_IsSampling(s)
              THEN Sensor_StartSampling(Sensor_StopSampling(s)) ELSE s
        s2 == COMM_Sendf(s1, [type |-> "PREVIEW_HEADER", samples |-> n])
    IN COMM_Sendf(PreviewLines(s2, n), [type |-> "PREVIEW_END"])

\* ------------------------------------------------------------------------
\* countdown.c
\* ------------------------------------------------------------------------
Countdown_IsActive(s) == s.g_cd.active

Countdown_Start(s, seconds) ==
    LET sec == IF seconds < 5 THEN 5 ELSE IF seconds > 10 THEN 10 ELSE seconds
    IN COMM_Sendf([s EXCEPT !.g_cd = [active |-> TRUE, step |-> sec, age |-> 0]],
                  [type |-> "COUNTDOWN", id |-> sec])

Countdown_Stop(s) ==
    IF ~s.g_cd.active THEN s
    ELSE COMM_Sendf([s EXCEPT !.g_cd.active = FALSE],
                    [type |-> "COUNTDOWN", id |-> 0])

Countdown_Tick_to_zero(s) ==
    IF ~s.g_cd.active THEN s
    ELSE IF s.g_cd.age >= COUNTDOWN_STEP_MS
    THEN COMM_Sendf([s EXCEPT !.g_cd.age = 0, !.g_cd.step = @ - 1,
                              !.g_cd.active = s.g_cd.step > 1],
                    [type |-> "COUNTDOWN", id |-> s.g_cd.step - 1])
    ELSE s

Countdown_Tick(s) ==
    IF ~s.g_cd.active THEN s
    ELSE IF s.g_cd.age >= COUNTDOWN_STEP_MS
    THEN IF s.g_cd.step > 1
         THEN COMM_Sendf([s EXCEPT !.g_cd.age = 0, !.g_cd.step = @ - 1],
                         [type |-> "COUNTDOWN", id |-> s.g_cd.step - 1])
         ELSE [s EXCEPT !.g_cd.age = 0, !.g_cd.active = FALSE]
    ELSE s

\* ------------------------------------------------------------------------
\* burst_mgr.c, section 2: high-level burst manager
\* ------------------------------------------------------------------------
\* file-level statics after BurstManager_Init
BurstManager_Init ==
    [samples_collected_in_burst |-> 0,
     burst_data |-> [i \in 0 .. (SAMPLES_PER_BURST - 1) |-> 0],
     g_current_kind |-> "KIND_UNKNOWN",
     g_current_burst_id |-> 0,
     g_burst_id_counter |-> 0,
     g_active_burst_ms |-> 0,
     g_mode_before_burst |-> "OP_MODE_IDLE",
     last_sample_age |-> 0,
     g_burst_tx_next_block |-> 0,
     g_burst_tx_total_blocks |-> 0,
     g_burst_tx_ended |-> FALSE,
     g_burst_after_countdown |-> FALSE,
     g_pending_burst_kind |-> "KIND_UNKNOWN",
     g_pending_burst_id |-> 0,
     g_burst_param_seconds |-> 0,
     g_burst_param_cycles |-> 0]

BurstManager_Reset(s) ==
    [s EXCEPT !.burst.samples_collected_in_burst = 0,
              !.burst.g_current_kind = "KIND_UNKNOWN",
              !.burst.g_current_burst_id = 0,
              !.burst.g_active_burst_ms = 0,
              !.burst.g_mode_before_burst = "OP_MODE_IDLE",
              !.burst.g_burst_tx_next_block = 0,
              !.burst.g_burst_tx_total_blocks = 0,
              !.burst.g_burst_tx_ended = FALSE,
              !.burst.g_burst_after_countdown = FALSE,
              !.burst.g_pending_burst_kind = "KIND_UNKNOWN",
              !.burst.g_pending_burst_id = 0,
              !.burst.g_burst_param_seconds = 0,
              !.burst.g_burst_param_cycles = 0]

BurstManager_Configure(s, kind, seconds, cycles) ==
    [s EXCEPT !.burst.g_pending_burst_kind = kind,
              !.burst.g_burst_param_seconds = seconds,
              !.burst.g_burst_param_cycles = cycles,
              !.burst.g_burst_after_countdown = TRUE,
              !.burst.g_burst_id_counter = @ + 1,
              !.burst.g_pending_burst_id = s.burst.g_burst_id_counter + 1,
              !.burst.g_mode_before_burst = s.ctx.op_mode,
              !.ctx.is_dumping = TRUE]

BurstManager_Start(s, kind, burst_id, duration_ms) ==
    LET s1 == [s EXCEPT !.burst.g_current_burst_id = burst_id,
                        !.burst.g_current_kind = kind,
                        !.burst.g_active_burst_ms = duration_ms,
                        !.burst.samples_collected_in_burst = 0,
                        !.burst.last_sample_age = 0,
                        !.ctx.diag.i2c_fail = 0,
                        !.ctx.diag.ring_ovf = 0,
                        !.ctx.is_dumping = TRUE,
                        !.ctx.diag.hb_pauses =
                            IF s.ctx.is_dumping THEN @ ELSE Sat(@ + 1)]
    IN AppContext_SetOpMode(Sensor_StartSampling(s1), "OP_MODE_BURST")

\* the burst duration in force and the number of samples it asks for
BurstUseMs(s) ==
    IF s.burst.g_active_burst_ms > 0 THEN s.burst.g_active_burst_ms
    ELSE s.ctx.cfg.burst_ms

BurstTargetSamples(s) ==
    LET t == (BurstUseMs(s) * s.ctx.cfg.odr_hz) \div 1000
    IN IF t = 0 THEN 1 ELSE Min(t, SAMPLES_PER_BURST)

ProcessAndTransmitBurstData(s) ==
    LET s0 == [s EXCEPT !.ctx.is_dumping = TRUE,
                        !.ctx.diag.hb_pauses =
                            IF s.ctx.is_dumping THEN @ ELSE Sat(@ + 1)]
        samples == s0.burst.samples_collected_in_burst
        total_blocks == (samples + BlockLines - 1) \div BlockLines
        bm_type == IF s0.burst.g_current_kind = "KIND_DAMP_CD"
                   THEN "BM_TYPE_DAMP_CD" ELSE "BM_TYPE_DAMP_TRG"
        s1 == [s0 EXCEPT !.burst.g_burst_tx_total_blocks = Min(total_blocks, MaxBlk),
                         !.burst.g_burst_tx_next_block = 0,
                         !.burst.g_burst_tx_ended = FALSE]
        s2 == BM_Begin(AppContext_SetOpMode(s1, "OP_MODE_BURST_SENDING"),
                       bm_type, s1.burst.g_current_burst_id, samples)
    IN IF s0.burst.g_current_kind = "KIND_WEIGHT"
       THEN BurstManager_Reset(
                AppContext_SetOpMode(
                    IF samples > 0
                    THEN COMM_SendfBlocking(s0, [type |-> "SUMMARY",
                                                 samples |-> samples])
                    ELSE s0,
                    s0.burst.g_mode_before_burst))
       ELSE IF samples = 0
            THEN [BM_EndOk(s2) EXCEPT !.burst.g_burst_tx_ended = TRUE]
            ELSE s2

\* the branch `if (!BM_IsActive() && !burst_abort_pending)` of the
\* BURST_SENDING case: the reset runs before the kind and the previous mode
\* are read
BurstSendingFinish(s) ==
    LET s1 == BurstManager_Reset(s)
        m0 == IF s1.burst.g_current_kind = "KIND_DAMP_TRG"
              THEN "OP_MODE_WAIT_ARM" ELSE s1.burst.g_mode_before_burst
        next_mode ==
            IF m0 = "OP_MODE_IDLE" /\ s1.burst.g_mode_before_burst # "OP_MODE_IDLE"
            THEN s1.burst.g_mode_before_burst
            ELSE IF m0 # "OP_MODE_WAIT_ARM" THEN "OP_MODE_IDLE" ELSE m0
    IN AppContext_SetOpMode(s1, next_mode)

\* the trailing `if (ctx->burst_abort_pending)` of BurstManager_Pump
BurstAbortFinish(s) ==
    IF s.ctx.burst_abort_pending /\ ~BM_IsActive(s) /\ COMM_TxIsIdle(s)
    THEN LET s1 == BurstManager_Reset([s EXCEPT !.ctx.burst_abort_pending = FALSE])
             m0 == IF s1.burst.g_current_kind = "KIND_DAMP_TRG"
                   THEN "OP_MODE_WAIT_ARM" ELSE s1.burst.g_mode_before_burst
             next_mode == IF m0 # "OP_MODE_WAIT_ARM" THEN "OP_MODE_IDLE" ELSE m0
         IN AppContext_SetOpMode(s1, next_mode)
    ELSE s

\* case OP_MODE_BURST of BurstManager_Pump.  Result: st, ret (TRUE when the
\* function returns early, from the stall branch)
BurstCollect(s) ==
    LET use_ms == BurstUseMs(s)
        target == BurstTargetSamples(s)
        before == s.burst.samples_collected_in_burst
        n == IF before < target THEN Min(s.sensor.ring, target - before) ELSE 0
        s1 == [s EXCEPT !.sensor.ring = @ - n,
                        !.burst.burst_data =
                            [i \in 0 .. (SAMPLES_PER_BURST - 1) |->
                                IF i >= before /\ i < before + n
                                THEN s.in.reading ELSE @[i]],
                        !.burst.samples_collected_in_burst = @ + n,
                        !.burst.last_sample_age = IF n > 0 THEN 0 ELSE @]
        got == s1.burst.samples_collected_in_burst
        time_up == s.ctx.state_age >= use_ms
        s2 == Sensor_StopSampling(
                  Telemetry_SendERROR(s1, "BURST", 500, "sampling_stalled"))
    IN IF ~time_up /\ got < target /\ got > 0 /\ s1.burst.last_sample_age > STALL_MS
       THEN [st |-> IF BM_IsActive(s2)
                    THEN [BM_EndAborted(s2, ABORT_CODE_STALL)
                             EXCEPT !.ctx.burst_abort_pending = TRUE]
                    ELSE LET s3 == BurstManager_Reset(s2)
                         IN AppContext_SetOpMode(s3, s3.burst.g_mode_before_burst),
             ret |-> TRUE]
       ELSE IF got >= target \/ time_up
       THEN [st |-> ProcessAndTransmitBurstData(Sensor_StopSampling(s1)),
             ret |-> FALSE]
       ELSE [st |-> s1, ret |-> FALSE]

\* case OP_MODE_BURST_SENDING of BurstManager_Pump
BurstSend(s) ==
    LET nb == s.burst.g_burst_tx_next_block
        tot == s.burst.g_burst_tx_total_blocks
        lines_in_block ==
            IF nb = tot - 1
            THEN (s.burst.samples_collected_in_burst - nb * BlockLines) % 65536
            ELSE BlockLines
        r == TB_EnqueueBlock(s, lines_in_block, nb)
        s1 == IF nb < tot
              THEN IF r.ret = 1
                   THEN [r.st EXCEPT !.burst.g_burst_tx_next_block = @ + 1]
                   ELSE r.st
              ELSE IF ~s.burst.g_burst_tx_ended
              THEN [BM_EndOk(s) EXCEPT !.burst.g_burst_tx_ended = TRUE]
              ELSE s
    IN IF ~BM_IsActive(s1) /\ ~s1.ctx.burst_abort_pending
       THEN BurstSendingFinish(s1)
       ELSE s1

\* case OP_MODE_COUNTDOWN of BurstManager_Pump
BurstAfterCountdown(s) ==
    IF Countdown_IsActive(s) THEN s
    ELSE IF s.burst.g_burst_after_countdown
    THEN LET id == s.burst.g_pending_burst_id
             kind == s.burst.g_pending_burst_kind
             ms == IF kind = "KIND_WEIGHT"
                   THEN IF s.burst.g_burst_param_cycles > 0 /\ s.ctx.cfg.odr_hz > 0
                        THEN (s.burst.g_burst_param_cycles * 1000)
                                 \div s.ctx.cfg.odr_hz + 5
                        ELSE 0
                   ELSE IF kind = "KIND_DAMP_CD"
                   THEN IF s.burst.g_burst_param_seconds > 0
                        THEN s.burst.g_burst_param_seconds * 1000
                        ELSE s.ctx.cfg.burst_ms
                   ELSE s.burst.g_active_burst_ms
             s1 == [s EXCEPT !.burst.g_burst_after_countdown = FALSE,
                             !.burst.g_pending_burst_id = 0,
                             !.burst.g_pending_burst_kind = "KIND_UNKNOWN"]
         IN BurstManager_Start(s1, kind, id, ms)
    ELSE AppContext_SetOpMode(s, "OP_MODE_IDLE")

BurstManager_Pump(s) ==
    LET s0 == IF BM_IsActive(s) THEN BM_Pump(s) ELSE s
        c == BurstCollect(s0)
    IN IF s0.ctx.op_mode = "OP_MODE_BURST"
       THEN IF c.ret THEN c.st ELSE BurstAbortFinish(c.st)
       ELSE IF s0.ctx.op_mode = "OP_MODE_BURST_SENDING"
       THEN BurstAbortFinish(BurstSend(s0))
       ELSE IF s0.ctx.op_mode = "OP_MODE_COUNTDOWN"
       THEN BurstAbortFinish(BurstAfterCountdown(s0))
       ELSE BurstAbortFinish(s0)

\* ------------------------------------------------------------------------
\* Time.  Every timestamp of the code is kept as its age now - timestamp,
\* saturated at the largest value it is compared with.  Elapse lets ms
\* milliseconds of HAL_GetTick() pass.
\* ------------------------------------------------------------------------
InflightSlots(s) == {s.g_tb.inflight[i] : i \in 1 .. Len(s.g_tb.inflight)}

Elapse(s, ms) ==
    [s EXCEPT
       !.ctx.state_age = Min(@ + ms, BurstUseMs(s)),
       !.burst.last_sample_age = Min(@ + ms, STALL_MS + 1),
       !.g_cd.age = Min(@ + ms, COUNTDOWN_STEP_MS),
       !.trig.hold_age = Min(@ + ms, s.ctx.trigger_settings.hold_ms),
       !.g_tb.queue = [e \in Slots |->
                         [s.g_tb.queue[e] EXCEPT
                            !.age = Min(@ + ms, PROTO_BLOCK_TIMEOUT_MS)]]]

\* Dead data is kept at a fixed value, so that two states that no path of
\* the code can tell apart are one state of the model:
\*  - a timestamp that is written again before it is next read (the mode
\*    timer and the last-sample time outside OP_MODE_BURST, the countdown
\*    time while no countdown runs, the trigger event time outside hold-off,
\*    the send time of an entry that _pump_timeouts cannot reach);
\*  - abort_code while aborted is clear, and type, burst_id and samples of
\*    g_bm while no session is active (BM_Begin writes them first);
\*  - the queue, its indices and next_blk while no transport burst is active
\*    (TB_BeginBurst resets them before TB_EnqueueBlock or TB_Pump can read
\*    them), and a slot that is neither queued nor referenced from the
\*    inflight array (_queue_push zeroes it before its next use).
QueuedSlots(s) ==
    {(s.g_tb.q_head + k) % TB_MAX_QUEUE : k \in 0 .. (s.g_tb.q_count - 1)}

NormalizeTb(s) ==
    LET live == s.g_tb.burst_active
        tb0 == IF live THEN s.g_tb
               ELSE [s.g_tb EXCEPT !.q_head = 0, !.q_tail = 0, !.q_count = 0,
                                   !.next_blk = 0,
                                   !.burst_id = IF s.g_tb.inflight = <<>> THEN 0 ELSE @]
        queued == IF live THEN QueuedSlots(s) ELSE {}
    IN [tb0 EXCEPT !.queue =
          [e \in Slots |->
             IF e \in InflightSlots(s)
             THEN IF live /\ s.g_bm.active THEN s.g_tb.queue[e]
                  ELSE [s.g_tb.queue[e] EXCEPT !.age = EntryZero.age]
             ELSE IF e \in queued
             THEN [s.g_tb.queue[e] EXCEPT !.age = EntryZero.age]
             ELSE EntryZero]]

Normalize(s) ==
    [s EXCEPT
       !.ctx.state_age = IF s.ctx.op_mode = "OP_MODE_BURST" THEN @ ELSE 0,
       !.burst.last_sample_age = IF s.ctx.op_mode = "OP_MODE_BURST" THEN @ ELSE 0,
       !.g_cd.age = IF s.g_cd.active THEN @ ELSE 0,
       !.g_cd.step = IF s.g_cd.active THEN @ ELSE 0,
       !.trig.hold_age = IF s.ctx.trg_state = "TRG_STATE_IN_HOLDOFF" THEN @
                         ELSE s.ctx.trigger_settings.hold_ms,
       !.g_bm.abort_code = IF s.g_bm.aborted THEN @ ELSE 0,
       !.g_bm.type = IF s.g_bm.active THEN @ ELSE "BM_TYPE_WEIGHT",
       !.g_bm.burst_id = IF s.g_bm.active THEN @ ELSE 0,
       !.g_bm.samples = IF s.g_bm.active THEN @ ELSE 0,
       !.stream.g_live_seq = IF s.stream.g_live_ready THEN @ ELSE 0,
       !.g_tb = NormalizeTb(s)]

\* ------------------------------------------------------------------------
\* trigger_logic.c
\* ------------------------------------------------------------------------
Trigger_Init == [zero_cal |-> FALSE, hold_age |-> DEFAULT_HOLD_MS]

\* zero_cal stands for "g_zero_noise_absmax is non-zero"; the event time 0
\* lies at least one hold-off in the past
Trigger_Reset(s) ==
    [s EXCEPT !.trig.zero_cal = FALSE,
              !.trig.hold_age = s.ctx.trigger_settings.hold_ms]

Trigger_IsZeroCalibrated(s) == s.trig.zero_cal

\* Zero_Capture_XYZ: blocks for the capture window and consumes the ring; it
\* succeeds only if the sensor delivered enough samples (input capture_ok)
Zero_Capture_XYZ(s, ms) ==
    LET s1 == [Elapse(s, ms) EXCEPT !.sensor.ring = 0]
    IN IF s.sensor.g_sampling_active /\ s.in.capture_ok
       THEN [s1 EXCEPT !.trig.zero_cal = TRUE]
       ELSE Trigger_Reset(Telemetry_SendERROR(s1, "ZERO", 500, "capture_failed"))

Trigger_Zero(s) ==
    LET s1 == Sensor_StopSampling(Zero_Capture_XYZ(s, REF_CAPTURE_DURATION_MS))
        s2 == COMM_Sendf(s1, [type |-> "CAL_INFO", status |-> "hold_zero_done"])
    IN AppContext_SetOpMode(s2, "OP_MODE_WAIT_ARM")

\* Arm_Capture_Mean_XYZ: as above, for the mean used by the trigger test
Trigger_Arm(s) ==
    LET s1 == [Elapse(s, ARM_CAPTURE_MS) EXCEPT !.sensor.ring = 0]
    IN IF s.sensor.g_sampling_active /\ s.in.capture_ok THEN s1
       ELSE Telemetry_SendERROR(s1, "ARM", 500, "capture_failed")

\* the trigger event of Trigger_Pump, shared by the test hook and the sample
\* path: hold-off, new burst id, TRIGGER_EDGE, burst start
TriggerFire_to_idle(s) ==
    LET id == s.burst.g_burst_id_counter + 1
        s1 == [s EXCEPT !.ctx.trg_state = "TRG_STATE_IDLE",
                        !.trig.hold_age = 0,
                        !.burst.g_burst_id_counter = id]
        s2 == COMM_Sendf(s1, [type |-> "TRIGGER_EDGE", burst_id |-> id])
    IN BurstManager_Start(s2, "KIND_DAMP_TRG", id, s.ctx.cfg.burst_ms)

TriggerFire(s) ==
    LET id == s.burst.g_burst_id_counter + 1
        s1 == [s EXCEPT !.ctx.trg_state = "TRG_STATE_IN_HOLDOFF",
                        !.trig.hold_age = 0,
                        !.burst.g_burst_id_counter = id]
        s2 == COMM_Sendf(s1, [type |-> "TRIGGER_EDGE", burst_id |-> id])
    IN BurstManager_Start(s2, "KIND_DAMP_TRG", id, s.ctx.cfg.burst_ms)

Trigger_Pump(s) ==
    LET held == s.ctx.trg_state = "TRG_STATE_IN_HOLDOFF"
        expired == s.trig.hold_age >= s.ctx.trigger_settings.hold_ms
        s1 == IF held /\ expired
              THEN [s EXCEPT !.ctx.trg_state = "TRG_STATE_ARMED"] ELSE s
    IN IF s.ctx.op_mode = "OP_MODE_TRG_CAL_ZERO"
       THEN IF ~Countdown_IsActive(s) THEN Trigger_Zero(s) ELSE s
       ELSE IF held /\ ~expired THEN s
       ELSE IF s1.ctx.trg_state # "TRG_STATE_ARMED" THEN s1
       ELSE IF s1.ctx.test_trigger_flag
       THEN TriggerFire([s1 EXCEPT !.ctx.test_trigger_flag = FALSE])
       ELSE IF s1.sensor.ring = 0 THEN s1
       ELSE LET s2 == [s1 EXCEPT !.sensor.ring = @ - 1]
            IN IF s.in.exceeds THEN TriggerFire(s2) ELSE s2

\* ------------------------------------------------------------------------
\* streaming.c
\* ------------------------------------------------------------------------
Streaming_Init ==
    [g_stream_enabled |-> FALSE, g_stream_suspended |-> FALSE,
     g_stream_owns_timer |-> FALSE, g_stream_decim |-> 0,
     g_stream_seq |-> 0, g_live_ready |-> FALSE, g_live_seq |-> 0,
     g_stream_div |-> IF DEFAULT_ODR_HZ \div DEFAULT_STREAM_HZ > 1
                      THEN DEFAULT_ODR_HZ \div DEFAULT_STREAM_HZ ELSE 1]

Streaming_UpdateDivider(s) ==
    LET d == IF s.ctx.cfg.stream_rate_hz > 0
             THEN s.ctx.cfg.odr_hz \div s.ctx.cfg.stream_rate_hz ELSE 1
    IN [s EXCEPT !.stream.g_stream_div = IF d = 0 THEN 1 ELSE d]

Streaming_Start(s) ==
    LET s1 == Streaming_UpdateDivider([s EXCEPT !.stream.g_stream_seq = 0,
                                                !.stream.g_stream_decim = 0])
        s2 == IF s1.ctx.op_mode = "OP_MODE_IDLE"
              THEN [Sensor_StartSampling(s1) EXCEPT !.stream.g_stream_owns_timer = TRUE]
              ELSE [s1 EXCEPT !.stream.g_stream_owns_timer = FALSE]
    IN [s2 EXCEPT !.stream.g_stream_enabled = TRUE,
                  !.ctx.is_dumping = TRUE,
                  !.ctx.diag.hb_pauses = Sat(@ + 1)]

Streaming_Stop(s) ==
    LET s1 == [s EXCEPT !.stream.g_stream_enabled = FALSE]
        s2 == IF s1.ctx.op_mode = "OP_MODE_IDLE" /\ s1.stream.g_stream_owns_timer
              THEN [Sensor_StopSampling(s1) EXCEPT !.stream.g_stream_owns_timer = FALSE]
              ELSE s1
    IN [s2 EXCEPT !.ctx.is_dumping = TRUE]

Streaming_Reconfigure(s) ==
    IF ~s.stream.g_stream_enabled THEN s
    ELSE LET s1 == IF s.stream.g_stream_owns_timer /\ s.ctx.op_mode = "OP_MODE_IDLE"
                   THEN Sensor_StopSampling(s) ELSE s
         IN [s1 EXCEPT !.stream.g_stream_enabled = FALSE,
                       !.stream.g_stream_owns_timer = FALSE,
                       !.stream.g_stream_suspended = TRUE,
                       !.stream.g_stream_decim = 0]

\* Streaming_ProcessSampleFromISR: every g_stream_div-th sample is handed to
\* the main loop unless the previous one still waits or the TX ring is short
\* of room; then it is counted as dropped.  g_live_seq is g_live_buf.seq.
Streaming_ProcessSampleFromISR(s) ==
    IF ~s.stream.g_stream_enabled THEN s
    ELSE IF s.stream.g_stream_decim + 1 < s.stream.g_stream_div
    THEN [s EXCEPT !.stream.g_stream_decim = @ + 1]
    ELSE IF ~s.stream.g_live_ready /\ s.comm.tx_state # "full"
    THEN [s EXCEPT !.stream.g_stream_decim = 0, !.stream.g_live_ready = TRUE,
                   !.stream.g_live_seq = s.stream.g_stream_seq,
                   !.stream.g_stream_seq = @ + 1]
    ELSE [s EXCEPT !.stream.g_stream_decim = 0,
                   !.ctx.diag.live_drops = Sat(@ + 1)]

\* Streaming_Pump: the sample handed over by the ISR goes out as a LIVE line
\* (COMM_TxFree() > 128 is "the TX ring is not full")
Streaming_Pump(s) ==
    IF ~s.stream.g_live_ready THEN s
    ELSE IF ~s.stream.g_stream_enabled
    THEN [s EXCEPT !.stream.g_live_ready = FALSE]
    ELSE IF s.comm.tx_state # "full"
    THEN COMM_Sendf([s EXCEPT !.stream.g_live_ready = FALSE],
                    [type |-> "LIVE", seq |-> s.stream.g_live_seq])
    ELSE s

\* ------------------------------------------------------------------------
\* cmd_handler.c
\* ------------------------------------------------------------------------
CmdHandler_HandleStop(s) ==
    LET prev_mode == s.ctx.op_mode
        s1 == Telemetry_Flush(Telemetry_SendACK(s, "STOP"))
        s2 == Sensor_StopSampling(s1)
        \* BurstManager_GetCurrentKind is read after BurstManager_Reset
        s3 == Trigger_Reset(BurstManager_Reset(s2))
        s4 == Streaming_Stop(s2)
        s5 == IF prev_mode = "OP_MODE_COUNTDOWN" THEN Countdown_Stop(s4) ELSE s4
        s6 == [BurstManager_Reset(Trigger_Reset(s5)) EXCEPT !.ctx.is_dumping = FALSE]
    IN IF prev_mode \in {"OP_MODE_BURST", "OP_MODE_BURST_SENDING"}
       THEN IF BM_IsActive(s2)
            THEN [BM_EndAborted(s2, 0) EXCEPT !.ctx.burst_abort_pending = TRUE]
            ELSE AppContext_SetOpMode(s3,
                     IF s3.burst.g_current_kind = "KIND_DAMP_TRG"
                     THEN "OP_MODE_WAIT_ARM" ELSE "OP_MODE_IDLE")
       ELSE AppContext_SetOpMode(s6,
                IF prev_mode = "OP_MODE_ARMED"
                THEN "OP_MODE_WAIT_ARM" ELSE "OP_MODE_IDLE")

\* SET_CFG: a key of line.kv that is negative stands for a key that is
\* absent or whose value api_parse_u32 refuses
Parse_SetCfg(s, line) ==
    LET req_odr_hz == IF line.kv.odr_hz >= 0 THEN line.kv.odr_hz
                      ELSE s.ctx.cfg.odr_hz
        new_burst_ms == IF line.kv.burst_ms >= 0 THEN line.kv.burst_ms
                        ELSE s.ctx.cfg.burst_ms
        new_hb_ms == IF line.kv.hb_ms >= 0 THEN line.kv.hb_ms
                     ELSE s.ctx.cfg.hb_ms
        new_stream_rate == IF line.kv.stream_rate_hz >= 0
                           THEN line.kv.stream_rate_hz
                           ELSE s.ctx.cfg.stream_rate_hz
        eff_odr == Sensor_SnapODR(req_odr_hz)
        old_odr == s.ctx.cfg.odr_hz
        s1 == [s EXCEPT !.ctx.cfg = [hb_ms |-> new_hb_ms,
                                     burst_ms |-> new_burst_ms,
                                     odr_hz |-> eff_odr,
                                     stream_rate_hz |-> new_stream_rate]]
        s2 == IF old_odr # eff_odr
              THEN Streaming_Reconfigure(
                       IF Sensor_IsSampling(s1)
                       THEN Sensor_StartSampling(Sensor_StopSampling(s1))
                       ELSE s1)
              ELSE s1
    IN IF new_burst_ms = 0 \/ new_burst_ms > 600000
       THEN Telemetry_SendNACK(s, "SET_CFG", "param_range", 102)
       ELSE IF new_hb_ms > 0 /\ new_hb_ms < 100
       THEN Telemetry_SendNACK(s, "SET_CFG", "param_range", 102)
       ELSE IF new_stream_rate > eff_odr
       THEN Telemetry_SendNACK(s, "SET_CFG", "param_range", 102)
       ELSE IF new_stream_rate > 0 /\ eff_odr % new_stream_rate # 0
       THEN Telemetry_SendNACK(s, "SET_CFG", "param_range", 102)
       ELSE Telemetry_SendACK(Streaming_UpdateDivider(s2), "SET_CFG")

\* SET_TRG: line.keys are the keys that are present and parse, line.kv
\* their values (k_mult in thousandths)
Parse_SetTrg(s, line) ==
    LET ns == [k_mult |-> IF "k_mult" \in line.keys THEN line.kv.k_mult
                          ELSE s.ctx.trigger_settings.k_mult,
               win_ms |-> IF "win_ms" \in line.keys THEN line.kv.win_ms
                          ELSE s.ctx.trigger_settings.win_ms,
               hold_ms |-> IF "hold_ms" \in line.keys THEN line.kv.hold_ms
                           ELSE s.ctx.trigger_settings.hold_ms]
        valid == ns.hold_ms >= 100 /\ ns.hold_ms <= 10000
    IN IF ~valid
       THEN Telemetry_SendNACK(s, "SET_TRG", "param_range", 102)
       ELSE Telemetry_SendACK([s EXCEPT !.ctx.trigger_settings = ns], "SET_TRG")

\* Parse_HB without the clamp of ms= values below 100: C19 must reject it
Parse_HB_unclamped(s, line) ==
    IF line.opt = "OFF"
    THEN Telemetry_SendACK([s EXCEPT !.ctx.cfg.hb_ms = 0], "HB")
    ELSE IF line.opt = "ON"
    THEN Telemetry_SendACK(
             [s EXCEPT !.ctx.cfg.hb_ms = IF @ = 0 THEN 1000 ELSE @], "HB")
    ELSE IF line.has_arg
    THEN Telemetry_SendACK([s EXCEPT !.ctx.cfg.hb_ms = line.arg], "HB")
    ELSE Telemetry_SendNACK(s, "HB", "bad_arg", 101)

\* HB: opt is OFF, ON or empty; has_arg tells whether ms= is given
Parse_HB(s, line) ==
    IF line.opt = "OFF"
    THEN Telemetry_SendACK([s EXCEPT !.ctx.cfg.hb_ms = 0], "HB")
    ELSE IF line.opt = "ON"
    THEN Telemetry_SendACK(
             [s EXCEPT !.ctx.cfg.hb_ms = IF @ = 0 THEN 1000 ELSE @], "HB")
    ELSE IF line.has_arg
    THEN LET v == IF line.arg > 0 /\ line.arg < 100 THEN 100 ELSE line.arg
         IN Telemetry_SendACK([s EXCEPT !.ctx.cfg.hb_ms = v], "HB")
    ELSE Telemetry_SendNACK(s, "HB", "bad_arg", 101)

\* Parse_StreamStart without its mode guard: C16 must reject it
Parse_StreamStart_unguarded(s, line) ==
    Telemetry_SendStreamStartACK(Streaming_Start(s))

Parse_StreamStart(s, line) ==
    IF s.ctx.op_mode # "OP_MODE_IDLE"
    THEN Telemetry_SendNACK(s, "STREAM_START", "bad_state", 103)
    ELSE Telemetry_SendStreamStartACK(Streaming_Start(s))

\* START_BURST_WEIGHT: has_arg tells whether cycles= is given
Parse_StartBurstWeight(s, line) ==
    IF ~line.has_arg
    THEN Telemetry_SendNACK(s, "START_BURST_WEIGHT", "bad_arg", 101)
    ELSE IF line.arg = 0 \/ line.arg > 1024
    THEN Telemetry_SendNACK(s, "START_BURST_WEIGHT", "param_range", 102)
    ELSE LET s1 == Telemetry_SendACK(s, "START_BURST_WEIGHT")
             s2 == BurstManager_Configure(s1, "KIND_WEIGHT", 0, line.arg)
         IN Countdown_Start(AppContext_SetOpMode(s2, "OP_MODE_COUNTDOWN"),
                            COUNTDOWN_DEFAULT_S)

Parse_StartBurstDamping(s, line) ==
    IF ~line.has_arg
    THEN Telemetry_SendNACK(s, "START_BURST_DAMPING", "bad_arg", 101)
    ELSE IF line.arg = 0 \/ line.arg > 600
    THEN Telemetry_SendNACK(s, "START_BURST_DAMPING", "param_range", 102)
    ELSE LET s1 == Telemetry_SendACK(s, "START_BURST_DAMPING")
             s2 == BurstManager_Configure(s1, "KIND_DAMP_CD", line.arg, 0)
         IN Countdown_Start(AppContext_SetOpMode(s2, "OP_MODE_COUNTDOWN"),
                            COUNTDOWN_DEFAULT_S)

Parse_Mode(s, line) ==
    IF line.opt = "TRIGGER_ON"
    THEN IF s.ctx.op_mode # "OP_MODE_IDLE"
         THEN Telemetry_SendNACK(s, "MODE", "bad_state", 103)
         ELSE LET s0 == Streaming_Stop(s)
                  s1 == Telemetry_SendACK(s0, "MODE")
                  s2 == COMM_Sendf(s1, [type |-> "CAL_INFO", status |-> "info"])
                  s3 == [s2 EXCEPT !.ctx.is_dumping = TRUE,
                                   !.ctx.diag.hb_pauses = Sat(@ + 1)]
              \* has_arg tells whether cd_s= is given, arg is its value
              IN IF line.has_arg /\ (line.arg < 5 \/ line.arg > 10)
                 THEN Telemetry_SendNACK(s0, "MODE", "param_range", 102)
                 ELSE AppContext_SetOpMode(Sensor_StartSampling(s3),
                                           "OP_MODE_WAIT_CAL_ZERO")
    ELSE IF line.opt = "TRIGGER_OFF"
    THEN LET s1 == Countdown_Stop(Telemetry_SendACK(s, "MODE"))
             s2 == Trigger_Reset(BurstManager_Reset(s1))
             s3 == IF s.ctx.op_mode # "OP_MODE_IDLE"
                   THEN Sensor_StopSampling(s2) ELSE s2
         IN AppContext_SetOpMode(s3, "OP_MODE_IDLE")
    ELSE Telemetry_SendNACK(s, "MODE", "bad_arg", 101)

Parse_CalReady(s, line) ==
    IF s.ctx.op_mode # "OP_MODE_WAIT_CAL_ZERO"
    THEN Telemetry_SendNACK(s, "CAL_READY", "bad_state", 103)
    ELSE IF line.opt # "hold_zero"
    THEN Telemetry_SendNACK(s, "CAL_READY", "bad_arg", 101)
    ELSE LET s1 == [Telemetry_SendACK(s, "CAL_READY")
                       EXCEPT !.ctx.is_dumping = TRUE,
                              !.ctx.diag.hb_pauses = Sat(@ + 1)]
             s2 == AppContext_SetOpMode(s1, "OP_MODE_TRG_CAL_ZERO")
         IN IF ~Countdown_IsActive(s2)
            THEN Countdown_Start(s2, COUNTDOWN_DEFAULT_S) ELSE s2

Parse_TimeSync(s, line) ==
    IF line.has_arg
    THEN Telemetry_SendACK([s EXCEPT !.ctx.tsync.has_sync = TRUE], "TIME_SYNC")
    ELSE Telemetry_SendNACK(s, "TIME_SYNC", "bad_arg", 101)

\* the ARM branch of process_command
CmdArm(s) ==
    IF s.ctx.op_mode = "OP_MODE_WAIT_ARM"
    THEN IF ~Trigger_IsZeroCalibrated(s)
         THEN Telemetry_SendNACK(s, "ARM", "zero_not_calibrated", 104)
         ELSE LET s1 == Telemetry_Flush(Telemetry_SendACK(s, "ARM"))
                  s2 == [s1 EXCEPT !.ctx.is_dumping = TRUE,
                                   !.ctx.diag.hb_pauses = Sat(@ + 1)]
                  s3 == Sensor_StartSampling(Trigger_Arm(Sensor_StartSampling(s2)))
              IN AppContext_SetOpMode(
                     [s3 EXCEPT !.ctx.trg_state = "TRG_STATE_ARMED"],
                     "OP_MODE_ARMED")
    ELSE IF s.ctx.op_mode = "OP_MODE_ARMED"
    THEN Telemetry_SendACK(s, "ARM")
    ELSE Telemetry_SendNACK(s, "ARM", "bad_state", 103)

\* the HELLO branch of process_command
CmdHello(s) ==
    LET s1 == [s EXCEPT !.ctx.diag = [i2c_fail |-> 0, ring_ovf |-> 0,
                                      live_drops |-> 0, hb_pauses |-> 0,
                                      last_err |-> 0],
                        !.ctx.tsync.has_sync = FALSE,
                        !.ctx.stop_flag = FALSE]
        s2 == COMM_Sendf(s1, [type |-> "HELLO_ACK", fw |-> FW_VERSION,
                              proto |-> PROTO_VERSION,
                              win |-> PROTO_WINDOW_DEFAULT,
                              blk_lines |-> PROTO_BLOCK_LINES_DEFAULT])
    IN AppContext_SetOpMode(s2, "OP_MODE_IDLE")

\* the GET_PREVIEW branch of process_command
CmdGetPreview(s) ==
    IF s.ctx.op_mode # "OP_MODE_IDLE"
    THEN Telemetry_SendNACK(s, "GET_PREVIEW", "bad_state", 103)
    ELSE Telemetry_SendPreview(
             [s EXCEPT !.ctx.is_dumping = TRUE,
                       !.ctx.diag.hb_pauses =
                           IF s.ctx.is_dumping THEN @ ELSE Sat(@ + 1)])

\* the ZERO branch of process_command
CmdZero(s) ==
    IF s.ctx.op_mode = "OP_MODE_IDLE"
    THEN LET s1 == Telemetry_Flush(Telemetry_SendACK(s, "ZERO"))
             s2 == Zero_Capture_XYZ(Sensor_StartSampling(s1),
                                    REF_CAPTURE_DURATION_MS)
         IN COMM_Sendf(Sensor_StopSampling(s2),
                       [type |-> "CAL_INFO", status |-> "zero_complete"])
    ELSE Telemetry_SendNACK(s, "ZERO", "bad_state", 103)

\* the STOP branch of process_command
CmdStop(s, line) ==
    IF s.ctx.op_mode = "OP_MODE_ARMED" /\ s.ctx.trg_state = "TRG_STATE_ARMED"
       /\ line.opt # "FORCE"
    THEN Telemetry_SendNACK(s, "STOP", "blocked_while_armed", 201)
    ELSE [s EXCEPT !.ctx.stop_flag = TRUE]

process_command(s, line) ==
    LET r == BM_HandleHostLine(s, line)
    IN IF r.ret = 1 THEN r.st
       ELSE CASE line.cmd = "HELLO" -> CmdHello(s)
              [] line.cmd = "GET_STATUS" -> Telemetry_SendStatus(s)
              [] line.cmd = "GET_CFG" -> Telemetry_SendCfg(s)
              [] line.cmd = "SET_CFG" -> Parse_SetCfg(s, line)
              [] line.cmd = "HB" -> Parse_HB(s, line)
              [] line.cmd = "TIME_SYNC" -> Parse_TimeSync(s, line)
              [] line.cmd = "STREAM_START" -> Parse_StreamStart(s, line)
              [] line.cmd = "STREAM_STOP" ->
                    Telemetry_SendACK(Streaming_Stop(s), "STREAM_STOP")
              [] line.cmd = "GET_TRG" -> Telemetry_SendTrgSettings(s)
              [] line.cmd = "SET_TRG" -> Parse_SetTrg(s, line)
              [] line.cmd = "MODE" -> Parse_Mode(s, line)
              [] line.cmd = "CAL_READY" -> Parse_CalReady(s, line)
              [] line.cmd = "ARM" -> CmdArm(s)
              [] line.cmd = "START_BURST_WEIGHT" ->
                    IF s.ctx.op_mode = "OP_MODE_IDLE"
                    THEN Parse_StartBurstWeight(s, line)
                    ELSE Telemetry_SendNACK(s, "START_BURST_WEIGHT", "bad_state", 103)
              [] line.cmd = "START_BURST_DAMPING" ->
                    IF s.ctx.op_mode = "OP_MODE_IDLE"
                    THEN Parse_StartBurstDamping(s, line)
                    ELSE Telemetry_SendNACK(s, "START_BURST_DAMPING", "bad_state", 103)
              [] line.cmd = "GET_PREVIEW" -> CmdGetPreview(s)
              [] line.cmd = "STOP" -> CmdStop(s, line)
              [] line.cmd = "ZERO" -> CmdZero(s)
              [] line.cmd = "_TEST_FORCE_TRIGGER" ->
                    IF s.ctx.op_mode = "OP_MODE_ARMED"
                    THEN Telemetry_SendACK([s EXCEPT !.ctx.test_trigger_flag = TRUE],
                                           "_TEST_FORCE_TRIGGER")
                    ELSE Telemetry_SendNACK(s, "_TEST_FORCE_TRIGGER", "bad_state", 103)
              [] OTHER -> Telemetry_SendNACK(s, "UNKNOWN", "unknown_command", 100)

\* ------------------------------------------------------------------------
\* Host lines and environment inputs
\* ------------------------------------------------------------------------
HostLine(cmd, opt, has_arg, arg, code) ==
    [cmd |-> cmd, opt |-> opt, has_arg |-> has_arg, arg |-> arg, code |-> code]

\* a SET_CFG line; a negative value stands for a key that is not given
CfgLine(odr_hz, burst_ms, hb_ms, stream_rate_hz) ==
    [cmd |-> "SET_CFG", opt |-> "", has_arg |-> FALSE, arg |-> 0, code |-> 0,
     kv |-> [odr_hz |-> odr_hz, burst_ms |-> burst_ms, hb_ms |-> hb_ms,
             stream_rate_hz |-> stream_rate_hz]]

\* the lines of the block transport and of a countdown burst
TransportLines ==
    {HostLine("STOP", "", FALSE, 0, 0),
     HostLine("ACK_COMPLETE", "", FALSE, 0, 0)}
    \cup {HostLine("ACK_COMPLETE", "", TRUE, b, 0) : b \in 1 .. MaxBursts}
    \cup {HostLine("ACK_BLK", "", TRUE, b, 0) : b \in 1 .. MaxBlk}
    \cup {HostLine("NACK_BLK", "", TRUE, b, c) : b \in 1 .. MaxBlk, c \in {0, 7}}

CountdownStart == {HostLine("START_BURST_DAMPING", "", TRUE, 1, 0)}

\* the lines of a triggered burst with a host that acknowledges
TriggerLines ==
    {HostLine("MODE", "TRIGGER_ON", FALSE, 0, 0),
     HostLine("CAL_READY", "hold_zero", FALSE, 0, 0),
     HostLine("ARM", "", FALSE, 0, 0)}
    \cup {HostLine("ACK_COMPLETE", "", TRUE, b, 0) : b \in 1 .. MaxBursts}
    \cup {HostLine("ACK_BLK", "", TRUE, b, 0) : b \in 1 .. MaxBlk}

TriggerStart == {HostLine("_TEST_FORCE_TRIGGER", "", FALSE, 0, 0)}

\* the lines used with a faulty environment (no burst is started; the zero
\* calibration runs its countdown)
FaultLines ==
    {HostLine("HELLO", "", FALSE, 0, 0),
     HostLine("GET_STATUS", "", FALSE, 0, 0),
     HostLine("TIME_SYNC", "", TRUE, 1, 0),
     HostLine("FOO", "", FALSE, 0, 0),
     HostLine("STOP", "", FALSE, 0, 0),
     HostLine("MODE", "TRIGGER_ON", FALSE, 0, 0),
     HostLine("MODE", "TRIGGER_OFF", FALSE, 0, 0),
     HostLine("CAL_READY", "hold_zero", FALSE, 0, 0)}

\* the lines of a host that walks through the operating modes: trigger
\* calibration and arming, streaming, STOP with and without FORCE
ModeLines ==
    {HostLine("MODE", "TRIGGER_ON", FALSE, 0, 0),
     HostLine("MODE", "TRIGGER_ON", TRUE, 3, 0),
     HostLine("CAL_READY", "hold_zero", FALSE, 0, 0),
     HostLine("ARM", "", FALSE, 0, 0),
     HostLine("STOP", "", FALSE, 0, 0),
     HostLine("STOP", "FORCE", FALSE, 0, 0),
     HostLine("STREAM_START", "", FALSE, 0, 0)}

ModeStarts == {HostLine("START_BURST_DAMPING", "", TRUE, 1, 0)}

\* the lines of a host that configures the device: SET_CFG with each key
\* absent, valid or out of range, the forms of HB, and the stream commands
\* a SET_TRG line with the given keys
TrgLine(keys, k_mult, win_ms, hold_ms) ==
    [cmd |-> "SET_TRG", opt |-> "", has_arg |-> FALSE, arg |-> 0, code |-> 0,
     keys |-> keys,
     kv |-> [k_mult |-> k_mult, win_ms |-> win_ms, hold_ms |-> hold_ms]]

CfgLines ==
    {CfgLine(o, b, h, r) : o \in {-1, 150, 5000}, b \in {-1, 0, 1},
                           h \in {-1, 50, 100}, r \in {-1, 200, 300}}
    \cup {HostLine("HB", "OFF", FALSE, 0, 0), HostLine("HB", "ON", FALSE, 0, 0),
          HostLine("HB", "", TRUE, 0, 0), HostLine("HB", "", TRUE, 50, 0),
          HostLine("HB", "", TRUE, 250, 0), HostLine("HB", "", FALSE, 0, 0),
          HostLine("STREAM_START", "", FALSE, 0, 0),
          HostLine("STREAM_STOP", "", FALSE, 0, 0)}

\* environment inputs of one step: whether a block send leaves the TX ring
\* full, whether Telemetry_Flush sees the ring drain in time, whether a
\* reference capture gets its samples, whether a sample exceeds the trigger
\* threshold, and what the samples taken from the ring in this step read
InReading(fill, flushed, capture_ok, exceeds, reading) ==
    [fill |-> fill, flushed |-> flushed, capture_ok |-> capture_ok,
     exceeds |-> exceeds, reading |-> reading]

In(fill, flushed, capture_ok, exceeds) ==
    InReading(fill, flushed, capture_ok, exceeds, 0)

St(in) ==
    [ctx |-> ctx, g_bm |-> g_bm, g_tb |-> g_tb, burst |-> burst, g_cd |-> g_cd,
     trig |-> trig, sensor |-> sensor, comm |-> comm, stream |-> stream,
     out |-> <<>>, in |-> in]

\* History of the wire.  id is the burst_id of the latest DATA_HEADER, phase
\* tells whether that burst's COMPLETE has followed, blk is the number of the
\* block of that burst that was transmitted for the first time most recently
\* (a BLOCK_HEADER record with retries = 0 is a first transmission).
\* stream is the latest acknowledgement of a stream command ("start" after
\* ACK,subject=STREAM_START, "stop" after ACK,subject=STREAM_STOP, "restart"
\* after a STREAM_START acknowledged while the stream was on), live and
\* live_prev are the seq of the last and of the last but one LIVE line
\* written since the acknowledgement of STREAM_START or STREAM_STOP (-1:
\* none).  A session that another command has ended (STOP, MODE, SET_CFG
\* call Streaming_Stop or Streaming_Reconfigure) is forgotten.
HistInit ==
    [id |-> 0, phase |-> "none", blk |-> 0,
     stream |-> "none", live |-> -1, live_prev |-> -1]

ObserveLine(h, r) ==
    IF r.type = "DATA_HEADER"
    THEN [h EXCEPT !.id = r.burst_id, !.phase = "open", !.blk = 0]
    ELSE IF r.type = "ACK" /\ r.subject \in {"STREAM_START", "STREAM_STOP"}
    THEN [h EXCEPT !.stream = IF r.subject = "STREAM_STOP" THEN "stop"
                              ELSE IF h.stream \in {"start", "restart"}
                              THEN "restart" ELSE "start",
                   !.live = -1, !.live_prev = -1]
    ELSE IF r.type = "LIVE" /\ h.stream \in {"start", "stop"}
    THEN [h EXCEPT !.live = r.seq, !.live_prev = h.live]
    ELSE IF r.type = "BLOCK_HEADER"
    THEN IF r.retries = 0 THEN [h EXCEPT !.blk = r.blk] ELSE h
    ELSE IF r.type = "COMPLETE"
    THEN IF r.burst_id = h.id THEN [h EXCEPT !.phase = "closed"] ELSE h
    ELSE h

RECURSIVE Observe(_, _)
Observe(h, out) ==
    IF out = <<>> THEN h ELSE Observe(ObserveLine(h, Head(out)), Tail(out))

ForgetStream(h, s) ==
    IF ~s.stream.g_stream_enabled /\ h.stream # "stop"
    THEN [h EXCEPT !.stream = "none", !.live = -1, !.live_prev = -1]
    ELSE h

\* the lines of the burst protocol among the lines written
BurstWire(out) ==
    SelectSeq(out, LAMBDA r : r.type \in {"DATA_HEADER", "BLOCK_HEADER", "DATA",
                                          "BLOCK_END", "COMPLETE"})

\* the step that ends in s0, the history becoming h
CommitHist(s0, h) ==
    LET s == Normalize(s0)
    IN /\ ctx' = s.ctx
       /\ g_bm' = s.g_bm
       /\ g_tb' = s.g_tb
       /\ burst' = s.burst
       /\ g_cd' = s.g_cd
       /\ trig' = s.trig
       /\ sensor' = s.sensor
       /\ comm' = s.comm
       /\ stream' = s.stream
       /\ tx' = BurstWire(s.out)
       /\ hist' = h
       /\ txr' = txr
       /\ acq' = acq

Commit(s0) ==
    CommitHist(s0, ForgetStream(Observe(hist, Normalize(s0).out), Normalize(s0)))

\* ------------------------------------------------------------------------
\* comm.c: the TX ring, byte by byte.  The other handlers use the summary
\* comm.tx_state of this ring; t is the record of the statics of comm.c that
\* belong to the TX path, together with
\*   pc          where the main loop stands inside Telemetry_Write,
\*   dma_running whether the UART DMA transfer started last is under way,
\*   wire        the bytes handed to HAL_UART_Transmit_DMA so far,
\*   accepted    the bytes of the messages for which Telemetry_Write
\*               returned len, in call order,
\*   offered     the number of bytes of all messages passed to it,
\*   msgs        the number of calls of Telemetry_Write.
\* ------------------------------------------------------------------------
TxInit ==
    [tx_ring_buffer |-> [i \in 0 .. (COMM_TX_RING_SIZE - 1) |-> 0],
     tx_ring_head |-> 0, tx_ring_tail |-> 0, tx_dma_busy |-> FALSE,
     tx_dma_buffer |-> <<>>, tx_dma_active_len |-> 0, s_tx_drop_count |-> 0,
     pc |-> "idle", dma_running |-> FALSE,
     wire |-> <<>>, accepted |-> <<>>, offered |-> 0, msgs |-> 0]

\* _rb_free of a ring that always reports room: C30 must reject it
_rb_free_roomy(t) == COMM_TX_RING_SIZE - 1

_rb_free(t) ==
    IF t.tx_ring_head >= t.tx_ring_tail
    THEN (COMM_TX_RING_SIZE - 1) - (t.tx_ring_head - t.tx_ring_tail)
    ELSE t.tx_ring_tail - t.tx_ring_head - 1

\* Telemetry_Write up to the end of its critical section: the message is
\* refused and counted, or copied in two chunks around the end of the ring
Telemetry_Write(t, data) ==
    LET len == Len(data)
        head == t.tx_ring_head
        first_chunk_len == Min(len, COMM_TX_RING_SIZE - head)
        remaining_len == len - first_chunk_len
        head1 == (head + first_chunk_len) % COMM_TX_RING_SIZE
    IN IF len > _rb_free(t)
       THEN [t EXCEPT !.s_tx_drop_count = @ + len]
       ELSE [t EXCEPT
               !.tx_ring_buffer =
                   [i \in 0 .. (COMM_TX_RING_SIZE - 1) |->
                       IF i >= head /\ i < head + first_chunk_len
                       THEN data[i - head + 1]
                       ELSE IF i < remaining_len
                       THEN data[first_chunk_len + i + 1]
                       ELSE @[i]],
               !.tx_ring_head = IF remaining_len > 0 THEN head1 + remaining_len
                                ELSE head1,
               !.pc = IF t.tx_dma_busy THEN "idle" ELSE "StartDmaTx"]

\* the return value of that call
Telemetry_Write_ret(t, data) == IF Len(data) > _rb_free(t) THEN 0 ELSE Len(data)

\* StartDmaTx up to the end of its critical section
StartDmaTx(t) ==
    IF t.tx_dma_busy THEN t
    ELSE IF t.tx_ring_head = t.tx_ring_tail
    THEN [t EXCEPT !.tx_dma_active_len = 0]
    ELSE LET span == IF t.tx_ring_head > t.tx_ring_tail
                     THEN t.tx_ring_head - t.tx_ring_tail
                     ELSE COMM_TX_RING_SIZE - t.tx_ring_tail
             len == Min(span, COMM_TX_DMA_SIZE)
         IN [t EXCEPT !.tx_dma_busy = TRUE,
                      !.tx_dma_buffer =
                          [i \in 1 .. len |->
                              t.tx_ring_buffer[t.tx_ring_tail + i - 1]],
                      !.tx_dma_active_len = len]

\* whether that call goes on to HAL_UART_Transmit_DMA
StartDmaTx_starts(t) == ~t.tx_dma_busy /\ t.tx_ring_head # t.tx_ring_tail

\* the rest of StartDmaTx: the chunk is handed to the UART, or the HAL
\* refuses it and the ring keeps it
HAL_UART_Transmit_DMA(t, ok) ==
    IF ok
    THEN [t EXCEPT !.wire = @ \o t.tx_dma_buffer, !.dma_running = TRUE]
    ELSE [t EXCEPT !.tx_dma_busy = FALSE, !.tx_dma_active_len = 0]

\* COMM_TxCpltCallback on the ring: the chunk is released and the next one
\* started
TxCplt(t, ok) ==
    LET t1 == [t EXCEPT !.tx_ring_tail =
                            (@ + t.tx_dma_active_len) % COMM_TX_RING_SIZE,
                        !.tx_dma_active_len = 0,
                        !.tx_dma_busy = FALSE,
                        !.dma_running = FALSE]
    IN IF StartDmaTx_starts(t1)
       THEN HAL_UART_Transmit_DMA(StartDmaTx(t1), ok)
       ELSE StartDmaTx(t1)

\* message number m of n bytes: every byte of a run is different
TxMessage(m, n) == [j \in 1 .. n |-> 10 * m + j]

\* ------------------------------------------------------------------------
\* sensor_hal.c: the acquisition chain, sample by sample.  The other
\* handlers use the summary sensor.ring of this ring; a is the record of the
\* statics of sensor_hal.c that belong to the chain, together with
\*   fifo      the samples waiting in the sensor FIFO (sample k is the
\*             number k >= 1; 0 is a reading that no sample backs),
\*   produced  the number of samples the sensor has produced,
\*   bus       the I2C transfer under way ("none", "data", "status",
\*             "int_source") and xfer the samples it was started for,
\*   writes    <<head, tail>> after each write of the latest completion
\*             of a data transfer, requested the samples it had asked for,
\*   got       the samples Sensor_GetSample has returned, in call order.
\* ------------------------------------------------------------------------
AcqInit ==
    [sample_ring_buffer |-> [i \in 0 .. (SAMPLE_RING_BUFFER_SIZE - 1) |-> 0],
     sample_ring_head |-> 0, sample_ring_tail |-> 0,
     g_sampling_active |-> FALSE, g_i2c_state |-> "I2C_STATE_IDLE",
     g_samples_to_read |-> 0,
     g_dma_rx_buf |-> [i \in 1 .. DMA_RX_BUF_SAMPLES |-> 0],
     g_fifo_status_buf |-> 0,
     ring_ovf |-> 0, i2c_fail |-> 0,
     g_debug_exti_rejected_sampling |-> 0, g_debug_exti_rejected_state |-> 0,
     fifo |-> <<>>, produced |-> 0, bus |-> "none", xfer |-> 0,
     writes |-> <<>>, requested |-> 0, got |-> <<>>]

\* the sensor in stream mode: a new sample replaces the oldest one when the
\* FIFO is full
FifoPush(a) ==
    [a EXCEPT !.produced = @ + 1,
              !.fifo = IF Len(@) >= DMA_RX_BUF_SAMPLES
                       THEN Append(Tail(@), a.produced + 1)
                       ELSE Append(@, a.produced + 1)]

Sensor_StartSampling_ring(a) ==
    [a EXCEPT !.sample_ring_head = 0, !.sample_ring_tail = 0,
              !.g_i2c_state = "I2C_STATE_IDLE", !.g_sampling_active = TRUE]

Sensor_StopSampling_ring(a) == [a EXCEPT !.g_sampling_active = FALSE]

Sensor_GetSample_ret(a) == a.sample_ring_head # a.sample_ring_tail

Sensor_GetSample(a) ==
    IF a.sample_ring_head # a.sample_ring_tail
    THEN [a EXCEPT !.got = Append(@, a.sample_ring_buffer[a.sample_ring_tail]),
                   !.sample_ring_tail = (@ + 1) % SAMPLE_RING_BUFFER_SIZE]
    ELSE a

\* HAL_I2C_Mem_Read_DMA and HAL_I2C_Mem_Read_IT return HAL_BUSY while a
\* transfer is under way
HAL_I2C_Mem_Read_ok(a) == a.bus = "none"

HAL_I2C_Mem_Read(a, what, n) == [a EXCEPT !.bus = what, !.xfer = n]

HAL_GPIO_EXTI_Callback(a) ==
    IF ~a.g_sampling_active
    THEN [a EXCEPT !.g_debug_exti_rejected_sampling = Sat(@ + 1)]
    ELSE IF a.g_i2c_state # "I2C_STATE_IDLE"
    THEN [a EXCEPT !.g_debug_exti_rejected_state = Sat(@ + 1)]
    ELSE LET a1 == [a EXCEPT !.g_samples_to_read = DMA_RX_BUF_SAMPLES,
                             !.g_i2c_state = "I2C_STATE_WAIT_FIFO_DATA"]
         IN IF HAL_I2C_Mem_Read_ok(a1)
            THEN HAL_I2C_Mem_Read(a1, "data", a1.g_samples_to_read)
            ELSE [a1 EXCEPT !.g_i2c_state = "I2C_STATE_IDLE",
                            !.i2c_fail = Sat(@ + 1)]

\* the transfer under way ends: a data transfer of xfer samples takes them
\* from the FIFO into the first xfer places of g_dma_rx_buf (a place the
\* FIFO cannot fill reads 0) and leaves the other places as they were; a
\* status transfer reads the number of samples in the FIFO
TransferDone(a) ==
    LET k == Min(a.xfer, Len(a.fifo))
    IN IF a.bus = "data"
       THEN [a EXCEPT !.bus = "none",
                      !.g_dma_rx_buf =
                          [i \in 1 .. DMA_RX_BUF_SAMPLES |->
                              IF i <= k THEN a.fifo[i]
                              ELSE IF i <= a.xfer THEN 0 ELSE @[i]],
                      !.fifo = SubSeq(@, k + 1, Len(@))]
       ELSE IF a.bus = "status"
       THEN [a EXCEPT !.bus = "none", !.g_fifo_status_buf = Len(a.fifo)]
       ELSE [a EXCEPT !.bus = "none", !.g_fifo_status_buf = 0]

\* the test of the producer loop with a ring that never is full: C31 must
\* reject it
ring_is_full_never(a) == FALSE

ring_is_full(a) ==
    (a.sample_ring_head + 1) % SAMPLE_RING_BUFFER_SIZE = a.sample_ring_tail

\* the producer loop of the WAIT_FIFO_DATA case, from place i of the buffer
RECURSIVE ProcessSamples(_, _)
ProcessSamples(a, i) ==
    IF i > DMA_RX_BUF_SAMPLES THEN a
    ELSE IF ring_is_full(a)
    THEN [a EXCEPT !.ring_ovf = Sat(@ + 1)]
    ELSE LET next_head == (a.sample_ring_head + 1) % SAMPLE_RING_BUFFER_SIZE
         IN ProcessSamples(
                [a EXCEPT !.sample_ring_buffer[a.sample_ring_head] =
                              a.g_dma_rx_buf[i],
                          !.sample_ring_head = next_head,
                          !.writes = Append(@, <<next_head,
                                                 a.sample_ring_tail>>)],
                i + 1)

MemRxCplt(a) ==
    CASE a.g_i2c_state = "I2C_STATE_WAIT_FIFO_DATA" ->
           LET a1 == [ProcessSamples([a EXCEPT !.writes = <<>>,
                                               !.requested =
                                                   a.g_samples_to_read], 1)
                         EXCEPT !.g_i2c_state = "I2C_STATE_DRAIN_STATUS"]
           IN IF HAL_I2C_Mem_Read_ok(a1)
              THEN HAL_I2C_Mem_Read(a1, "status", 0)
              ELSE [a1 EXCEPT !.g_i2c_state = "I2C_STATE_IDLE",
                              !.i2c_fail = Sat(@ + 1)]
      [] a.g_i2c_state = "I2C_STATE_DRAIN_STATUS" ->
           IF a.g_fifo_status_buf > 0
           THEN LET a1 == [a EXCEPT !.g_samples_to_read =
                                        Min(a.g_fifo_status_buf,
                                            DMA_RX_BUF_SAMPLES),
                                    !.g_i2c_state =
                                        "I2C_STATE_WAIT_FIFO_DATA"]
                IN IF HAL_I2C_Mem_Read_ok(a1)
                   THEN HAL_I2C_Mem_Read(a1, "data", a1.g_samples_to_read)
                   ELSE [a1 EXCEPT !.g_i2c_state = "I2C_STATE_IDLE",
                                   !.i2c_fail = Sat(@ + 1)]
           ELSE LET a1 == [a EXCEPT !.g_i2c_state =
                                        "I2C_STATE_CLEAR_INT_SOURCE"]
                IN IF HAL_I2C_Mem_Read_ok(a1)
                   THEN HAL_I2C_Mem_Read(a1, "int_source", 0)
                   ELSE [a1 EXCEPT !.g_i2c_state = "I2C_STATE_IDLE",
                                   !.i2c_fail = Sat(@ + 1)]
      [] OTHER -> [a EXCEPT !.g_i2c_state = "I2C_STATE_IDLE"]

I2cError(a) ==
    [a EXCEPT !.i2c_fail = Sat(@ + 1), !.g_i2c_state = "I2C_STATE_IDLE"]

\* ------------------------------------------------------------------------
\* main.c: boot and the main loop
\* ------------------------------------------------------------------------
Boot ==
    AppContext_SetOpMode(
        [ctx |-> AppContext_Init,
         g_bm |-> BM_Init,
         g_tb |-> TB_Init(Window, BlockLines, PROTO_MAX_RETRIES),
         burst |-> BurstManager_Init,
         g_cd |-> [active |-> FALSE, step |-> 0, age |-> 0],
         trig |-> Trigger_Init,
         sensor |-> [g_sampling_active |-> FALSE, ring |-> 0],
         comm |-> [tx_state |-> "idle", s_tx_drop_count |-> 0,
                   s_rx_overflow_count |-> 0,
                   line_len |-> 0, line_truncated |-> FALSE,
                   g_hb_age |-> 0],
         stream |-> Streaming_Init,
         out |-> <<>>,
         in |-> In(FALSE, TRUE, TRUE, FALSE)],
        "OP_MODE_IDLE")

\* the state after boot, with the history h
InitHist(h) ==
    /\ ctx = Boot.ctx
    /\ g_bm = Boot.g_bm
    /\ g_tb = Boot.g_tb
    /\ burst = Boot.burst
    /\ g_cd = Boot.g_cd
    /\ trig = Boot.trig
    /\ sensor = Boot.sensor
    /\ comm = Boot.comm
    /\ stream = Boot.stream
    /\ tx = BurstWire(Boot.out)
    /\ hist = h
    /\ txr = TxInit
    /\ acq = AcqInit

Init == InitHist(HistInit)

\* comm.c, line assembly.  The bytes are "\r", "\n" or a payload byte "x";
\* the content of line_buffer is not kept: a line of payload bytes is the
\* command word cmd followed by filler if it is long enough to hold the
\* word, and an unknown command otherwise.
LINE_BUFFER_SIZE == PROTO_MAX_LINE

RxBytes == {"x", "\r", "\n"}

RxCommands == {"GET_STATUS", "STOP", "HELLO"}

CmdLen(cmd) ==
    CASE cmd = "GET_STATUS" -> 10
      [] cmd = "STOP" -> 4
      [] cmd = "HELLO" -> 5

BufferedLine(len, cmd) ==
    IF CmdLen(cmd) <= len THEN HostLine(cmd, "", FALSE, 0, 0)
    ELSE HostLine("x", "", FALSE, 0, 0)

\* one pass of the loop of COMM_Process_Budgeted over the byte c
RxByte(s, c, cmd) ==
    IF c = "\r" \/ c = "\n"
    THEN LET s1 == IF s.comm.line_len > 0
                   THEN process_command(s, BufferedLine(s.comm.line_len, cmd))
                   ELSE IF s.comm.line_truncated
                   THEN COMM_Sendf(s, [type |-> "NACK", subject |-> "UNKNOWN",
                                       reason |-> "line_too_long", code |-> 300])
                   ELSE s
         IN [s1 EXCEPT !.comm.line_len = 0, !.comm.line_truncated = FALSE]
    ELSE IF ~s.comm.line_truncated
    THEN IF s.comm.line_len < LINE_BUFFER_SIZE - 1
         THEN [s EXCEPT !.comm.line_len = @ + 1]
         ELSE [s EXCEPT !.comm.line_truncated = TRUE, !.comm.line_len = 0]
    ELSE s

\* COMM_Process_Budgeted with the bytes that wait in the RX ring (fewer
\* lines than COMM_MAX_LINES_PER_CALL)
RECURSIVE COMM_Process_Budgeted(_, _, _)
COMM_Process_Budgeted(s, bytes, cmd) ==
    IF bytes = <<>> THEN s
    ELSE COMM_Process_Budgeted(RxByte(s, Head(bytes), cmd), Tail(bytes), cmd)

RECURSIVE ProcessLines(_, _)
ProcessLines(s, lines) ==
    IF lines = <<>> THEN s
    ELSE ProcessLines(process_command(s, Head(lines)), Tail(lines))

\* steps 4 and 5 of the loop: the STOP flag, then the is_dumping reset
MainFlags(s) ==
    LET s1 == IF s.ctx.stop_flag
              THEN [CmdHandler_HandleStop(s) EXCEPT !.ctx.stop_flag = FALSE]
              ELSE s
        is_busy == s1.ctx.op_mode \in {"OP_MODE_BURST", "OP_MODE_BURST_SENDING"}
    IN IF s1.ctx.is_dumping /\ ~is_busy /\ COMM_TxIsIdle(s1) /\ ~BM_IsActive(s1)
       THEN [s1 EXCEPT !.ctx.is_dumping = FALSE]
       ELSE s1

\* one iteration of while (1): CmdHandler_ProcessInput with the lines that
\* wait in the RX ring, Telemetry_Pump, BurstManager_Pump, Trigger_Pump,
\* Streaming_Pump, Countdown_Tick, then the flags
LoopBody(s, lines) ==
    MainFlags(Countdown_Tick(Streaming_Pump(Trigger_Pump(BurstManager_Pump(
        Telemetry_Pump(ProcessLines(s, lines)))))))

\* one iteration of while (1) whose input is given as bytes
MainLoopBytes ==
    \E n \in 1 .. MaxRxBytes :
      \E bytes \in [1 .. n -> RxBytes], cmd \in RxCommands, flushed \in BOOLEAN :
        LET s0 == St(In(FALSE, flushed, TRUE, FALSE))
        IN Commit(MainFlags(Countdown_Tick(Streaming_Pump(Trigger_Pump(
               BurstManager_Pump(Telemetry_Pump(
                   COMM_Process_Budgeted(s0, bytes, cmd))))))))

HasCmd(lines, cmds) == \E i \in 1 .. Len(lines) : lines[i].cmd \in cmds

\* The environment inputs are enumerated only where the iteration can read
\* them.  Exceeds is the set of outcomes of the threshold test of
\* Trigger_Pump that the environment can produce, Readings the set of values
\* the samples can read, Cap the number of bursts of a run.
MainLoopCap(Lines, Starts, Fills, Exceeds, Readings, Cap) ==
    \E n \in 0 .. MaxLinesPerCall :
      \E lines \in [1 .. n -> Lines \cup
                      IF burst.g_burst_id_counter + n <= Cap
                      THEN Starts ELSE {}] :
        \E fill \in Fills,
           flushed \in IF HasCmd(lines, {"STOP", "ARM"}) \/ ctx.stop_flag
                       THEN BOOLEAN ELSE {TRUE},
           capture_ok \in IF ctx.op_mode \in {"OP_MODE_WAIT_ARM", "OP_MODE_TRG_CAL_ZERO"}
                          THEN BOOLEAN ELSE {TRUE},
           exceeds \in IF burst.g_burst_id_counter < Cap
                          /\ (ctx.trg_state # "TRG_STATE_IDLE" \/ HasCmd(lines, {"ARM"}))
                       THEN Exceeds ELSE {FALSE},
           reading \in IF ctx.op_mode = "OP_MODE_BURST" /\ sensor.ring > 0
                       THEN Readings ELSE {0} :
          LET s == LoopBody(St(InReading(fill, flushed, capture_ok, exceeds,
                                         reading)), lines)
          IN /\ s.burst.g_burst_id_counter <= Cap
             /\ Commit(s)

MainLoopEnv(Lines, Starts, Fills, Exceeds) ==
    MainLoopCap(Lines, Starts, Fills, Exceeds, {0}, MaxBursts)

MainLoop(Lines, Starts, Fills) == MainLoopEnv(Lines, Starts, Fills, BOOLEAN)

\* ------------------------------------------------------------------------
\* Interrupt handlers and the clock (between two iterations of the loop)
\* ------------------------------------------------------------------------
Tick == Commit(Elapse(St(In(FALSE, TRUE, TRUE, FALSE)), TickMs))

\* the same with the heartbeat timer running
TickHb ==
    Commit([Elapse(St(In(FALSE, TRUE, TRUE, FALSE)), TickMs) EXCEPT
               !.comm.g_hb_age = Min(@ + TickMs, HbAgeCap)])

\* HAL_I2C_MemRxCpltCallback, state WAIT_FIFO_DATA: a DMA batch is pushed to
\* the sample ring; the first sample that does not fit counts one overflow
\* and ends the batch.  Overflow tells whether the environment lets a batch
\* arrive that does not fit.
RECURSIVE PushSamples(_, _)
PushSamples(s, n) ==
    IF n = 0 THEN s
    ELSE IF s.sensor.ring >= RingCap
    THEN [s EXCEPT !.ctx.diag.ring_ovf = Sat(@ + 1)]
    ELSE PushSamples(
             [Streaming_ProcessSampleFromISR(s) EXCEPT !.sensor.ring = @ + 1],
             n - 1)

HAL_I2C_MemRxCpltCallbackOf(Batch, Overflow) ==
    /\ sensor.g_sampling_active
    /\ LET s == St(In(FALSE, TRUE, TRUE, FALSE))
           room == RingCap - s.sensor.ring
       IN /\ Overflow \/ Batch <= room
          /\ PushSamples(s, Batch).stream.g_stream_seq <= MaxSeq
          /\ Commit(PushSamples(s, Batch))

HAL_I2C_MemRxCpltCallback(Overflow) ==
    HAL_I2C_MemRxCpltCallbackOf(DmaBatch, Overflow)

HAL_I2C_ErrorCallback ==
    /\ sensor.g_sampling_active
    /\ ctx.diag.i2c_fail < MaxCount
    /\ Commit([St(In(FALSE, TRUE, TRUE, FALSE)) EXCEPT
                  !.ctx.diag.i2c_fail = Sat(@ + 1)])

\* a DMA chunk of the TX ring has gone out
COMM_TxCpltCallback ==
    /\ comm.tx_state # "idle"
    /\ Commit([St(In(FALSE, TRUE, TRUE, FALSE)) EXCEPT
                  !.comm.tx_state = IF @ = "full" THEN "busy" ELSE "idle"])

\* COMM_OnRxEvent with the RX ring full: the bytes are counted and lost
COMM_OnRxEvent ==
    /\ comm.s_rx_overflow_count < MaxCount
    /\ Commit([St(In(FALSE, TRUE, TRUE, FALSE)) EXCEPT
                  !.comm.s_rx_overflow_count = Sat(@ + 1)])

\* ------------------------------------------------------------------------
\* Specifications
\* ------------------------------------------------------------------------
\* Spec: a host that runs countdown bursts over the block transport.  The
\* environment is nominal: the TX ring drains faster than it is filled,
\* sample batches arrive only when the ring has room, and no I2C error or RX
\* overflow occurs.
MainLoopTransport == MainLoop(TransportLines, CountdownStart, {FALSE})

SensorBatch == HAL_I2C_MemRxCpltCallback(FALSE)

SensorBatchSmall == HAL_I2C_MemRxCpltCallbackOf(StallBatch, FALSE)

Next ==
    \/ MainLoopTransport
    \/ Tick
    \/ SensorBatch
    \/ COMM_TxCpltCallback

Spec == Init /\ [][Next]_vars

\* SpecTrigger: a host that calibrates, arms and receives triggered bursts,
\* in the same nominal environment.
MainLoopTrigger == MainLoop(TriggerLines, TriggerStart, {FALSE})

NextTrigger ==
    \/ MainLoopTrigger
    \/ Tick
    \/ SensorBatch
    \/ COMM_TxCpltCallback

SpecTrigger == Init /\ [][NextTrigger]_vars

\* SpecData: a host that calibrates and arms and never acknowledges, the
\* sensor delivering small batches whose samples exceed the trigger
\* threshold; two triggered bursts can follow one another, the samples of
\* the first reading 1 and those of the second reading 0.
DataLines ==
    {HostLine("MODE", "TRIGGER_ON", FALSE, 0, 0),
     HostLine("CAL_READY", "hold_zero", FALSE, 0, 0),
     HostLine("ARM", "", FALSE, 0, 0)}

Readings == {burst.g_burst_id_counter % 2}

MainLoopData == MainLoopCap(DataLines, {}, {FALSE}, {TRUE}, Readings, TwoBursts)

NextData ==
    \/ MainLoopData
    \/ Tick
    \/ SensorBatchSmall
    \/ COMM_TxCpltCallback

SpecData == Init /\ [][NextData]_vars

\* SpecFaults: a host that handshakes and switches the trigger mode on and
\* off, in an environment with faults: a written line may leave the TX ring
\* full, a sample batch may overflow the ring, the I2C transfer may fail and
\* bytes may arrive while the RX ring is full.
MainLoopFaults == MainLoop(FaultLines, {}, BOOLEAN)

SensorBatchOverflow == HAL_I2C_MemRxCpltCallback(TRUE)

NextFaults ==
    \/ MainLoopFaults
    \/ Tick
    \/ SensorBatchOverflow
    \/ HAL_I2C_ErrorCallback
    \/ COMM_TxCpltCallback
    \/ COMM_OnRxEvent

SpecFaults == Init /\ [][NextFaults]_vars

\* SpecStall: a countdown burst of two seconds whose samples arrive in small
\* batches, so that the sensor can fall silent in the middle of a burst.
StallStart == {HostLine("START_BURST_DAMPING", "", TRUE, 2, 0)}

StallLines ==
    {HostLine("ACK_COMPLETE", "", TRUE, b, 0) : b \in 1 .. MaxBursts}
    \cup {HostLine("ACK_BLK", "", TRUE, b, 0) : b \in 1 .. MaxBlk}

MainLoopStall == MainLoopEnv(StallLines, StallStart, {FALSE}, {FALSE})

NextStall ==
    \/ MainLoopStall
    \/ Tick
    \/ SensorBatchSmall
    \/ COMM_TxCpltCallback

SpecStall == Init /\ [][NextStall]_vars

\* SpecRx: a host whose lines arrive byte by byte, with any of the line
\* terminators and with lines of any length.
NextRx ==
    \/ MainLoopBytes
    \/ COMM_TxCpltCallback

SpecRx == Init /\ [][NextRx]_vars

\* SpecCfg: a host that changes the configuration and the heartbeat and
\* starts and stops the live stream, in the nominal environment.
MainLoopCfg == MainLoopEnv(CfgLines, {}, {FALSE}, {FALSE})

NextCfg ==
    \/ MainLoopCfg
    \/ SensorBatch
    \/ COMM_TxCpltCallback

SpecCfg == Init /\ [][NextCfg]_vars

\* SpecTrgCfg: a host that reads and sets the trigger settings, each key
\* alone with values inside and outside its documented range, and all keys
\* in one line.
TrgLines ==
    {TrgLine({"k_mult"}, k, 0, 0) : k \in {-1000, 2000, 20001}}
    \cup {TrgLine({"win_ms"}, 0, w, 0) : w \in {0, 49, 500}}
    \cup {TrgLine({"hold_ms"}, 0, 0, h) : h \in {99, 100, 200, 10000, 10001}}
    \cup {TrgLine({"k_mult", "win_ms", "hold_ms"}, 20000, 50, 10000),
          TrgLine({}, 0, 0, 0),
          HostLine("GET_TRG", "", FALSE, 0, 0)}

MainLoopTrgCfg == MainLoopEnv(TrgLines, {}, {FALSE}, {FALSE})

NextTrgCfg ==
    \/ MainLoopTrgCfg
    \/ COMM_TxCpltCallback

SpecTrgCfg == Init /\ [][NextTrgCfg]_vars

\* SpecHb: the heartbeat timer runs (in the other specifications it stands
\* still and no HB line is written); the host switches the heartbeat off and
\* on and runs a countdown burst over the block transport.
HbLines ==
    {HostLine("HB", "OFF", FALSE, 0, 0), HostLine("HB", "ON", FALSE, 0, 0)}
    \cup StallLines

MainLoopHb == MainLoopEnv(HbLines, CountdownStart, {FALSE}, {FALSE})

NextHb ==
    \/ MainLoopHb
    \/ TickHb
    \/ SensorBatch
    \/ COMM_TxCpltCallback

SpecHb == Init /\ [][NextHb]_vars

\* SpecStream: a host that starts and stops the live stream, at the default
\* rate and at half the sampling rate (every second sample is a LIVE
\* sample), with samples arriving in small batches; nominal environment.
StreamLines ==
    {HostLine("STREAM_START", "", FALSE, 0, 0),
     HostLine("STREAM_STOP", "", FALSE, 0, 0),
     CfgLine(-1, -1, -1, 400)}

\* up to StreamLinesPerCall lines wait in the RX ring when
\* CmdHandler_ProcessInput runs (COMM_MAX_LINES_PER_CALL is 8)
MainLoopStream ==
    \E n \in 0 .. StreamLinesPerCall :
      \E lines \in [1 .. n -> StreamLines] :
        Commit(LoopBody(St(In(FALSE, TRUE, TRUE, FALSE)), lines))

NextStream ==
    \/ MainLoopStream
    \/ SensorBatchSmall
    \/ COMM_TxCpltCallback

SpecStream == Init /\ [][NextStream]_vars

\* SpecWeight: a host that runs weight bursts of one and of two cycles and
\* may stop them; samples arrive in small batches; nominal environment.
WeightLines == {HostLine("STOP", "", FALSE, 0, 0)}

WeightStart == {HostLine("START_BURST_WEIGHT", "", TRUE, c, 0) : c \in 1 .. 2}

MainLoopWeight == MainLoopEnv(WeightLines, WeightStart, {FALSE}, {FALSE})

NextWeight ==
    \/ MainLoopWeight
    \/ Tick
    \/ SensorBatchSmall
    \/ COMM_TxCpltCallback

SpecWeight == Init /\ [][NextWeight]_vars

\* SpecDiag: a host that starts the live stream and a countdown burst and
\* never sends HELLO, with a sensor whose batches may overflow the sample
\* ring and whose I2C transfers may fail.
DiagLines == {HostLine("STREAM_START", "", FALSE, 0, 0)}

MainLoopDiag == MainLoopEnv(DiagLines, CountdownStart, {FALSE}, {FALSE})

NextDiag ==
    \/ MainLoopDiag
    \/ Tick
    \/ SensorBatchOverflow
    \/ HAL_I2C_ErrorCallback
    \/ COMM_TxCpltCallback

SpecDiag == Init /\ [][NextDiag]_vars

\* SpecTx: the main loop writes messages to the TX ring while the
\* TX-complete interrupt releases chunks; the interrupt can fall between any
\* two critical sections of the main loop, and the HAL may refuse a
\* transfer.
TxRest ==
    UNCHANGED <<ctx, g_bm, g_tb, burst, g_cd, trig, sensor, comm, stream, tx,
                hist, acq>>

TxWrite ==
    /\ txr.pc = "idle"
    /\ txr.msgs < MaxMsgs
    /\ \E n \in 1 .. MaxMsgLen :
         LET data == TxMessage(txr.msgs + 1, n)
             ret == Telemetry_Write_ret(txr, data)
         IN txr' = [Telemetry_Write(txr, data) EXCEPT
                        !.msgs = @ + 1,
                        !.offered = @ + n,
                        !.accepted = IF ret = n THEN @ \o data ELSE @]
    /\ TxRest

TxStart ==
    /\ txr.pc = "StartDmaTx"
    /\ txr' = [StartDmaTx(txr) EXCEPT
                  !.pc = IF StartDmaTx_starts(txr)
                         THEN "HAL_UART_Transmit_DMA" ELSE "idle"]
    /\ TxRest

TxHand ==
    /\ txr.pc = "HAL_UART_Transmit_DMA"
    /\ \E ok \in BOOLEAN :
         txr' = [HAL_UART_Transmit_DMA(txr, ok) EXCEPT !.pc = "idle"]
    /\ TxRest

TxCpltIrq ==
    /\ txr.dma_running
    /\ \E ok \in BOOLEAN : txr' = TxCplt(txr, ok)
    /\ TxRest

NextTx ==
    \/ TxWrite
    \/ TxStart
    \/ TxHand
    \/ TxCpltIrq

SpecTx == Init /\ [][NextTx]_vars

\* SpecSilent: a host that starts one countdown burst and then sends
\* nothing.  The main loop never stops iterating, the tick interrupt keeps
\* the clock running, and the sensor and the UART DMA complete what they
\* have started: each of these steps is taken again and again as long as it
\* changes the state.
MainLoopSilent == MainLoopEnv({}, CountdownStart, {FALSE}, {FALSE})

NextSilent ==
    \/ MainLoopSilent
    \/ Tick
    \/ SensorBatch
    \/ COMM_TxCpltCallback

\* the step that ends in s would leave every variable as it is
Settled(s) ==
    LET n == Normalize(s)
    IN /\ n.ctx = ctx /\ n.g_bm = g_bm /\ n.g_tb = g_tb /\ n.burst = burst
       /\ n.g_cd = g_cd /\ n.trig = trig /\ n.sensor = sensor
       /\ n.comm = comm /\ n.stream = stream /\ BurstWire(n.out) = tx
       /\ ForgetStream(Observe(hist, n.out), n) = hist

\* Weak fairness of the iteration without host line, of the tick, of the
\* sensor batch and of the TX completion.  For the first three the enabling
\* condition is spelled out: WF_vars(A) is []<>~ENABLED <<A>>_vars \/
\* []<><<A>>_vars, and <<A>>_vars is enabled exactly when the step changes
\* the state.
SpecSilent ==
    /\ Init /\ [][NextSilent]_vars
    /\ \/ []<>Settled(LoopBody(St(In(FALSE, TRUE, TRUE, FALSE)), <<>>))
       \/ []<><<MainLoopSilent>>_vars
    /\ \/ []<>Settled(Elapse(St(In(FALSE, TRUE, TRUE, FALSE)), TickMs))
       \/ []<><<Tick>>_vars
    /\ \/ []<>(~sensor.g_sampling_active \/ DmaBatch > RingCap - sensor.ring)
       \/ []<><<SensorBatch>>_vars
    /\ WF_vars(COMM_TxCpltCallback)

\* SpecQueue: the session layer and the transport during the transfer of a
\* burst of QueueBlocks blocks.  The burst manager is represented by what
\* ProcessAndTransmitBurstData and the BURST_SENDING case of
\* BurstManager_Pump do with them: BM_Begin once, then in every iteration of
\* the main loop the host line (if any), BM_Pump, and TB_EnqueueBlock of the
\* next block as long as blocks remain.  The host acknowledges any block, or
\* none.
AckBlkLines == {HostLine("ACK_BLK", "", TRUE, b, 0) : b \in 1 .. QueueBlocks}

QueueBegin ==
    /\ ~g_bm.active /\ g_tb.burst_id = 0
    /\ Commit(BM_Begin(St(In(FALSE, TRUE, TRUE, FALSE)), "BM_TYPE_DAMP_CD", 1,
                       QueueBlocks * BlockLines))

QueueLoop ==
    /\ g_bm.active
    /\ \E n \in 0 .. 1 : \E lines \in [1 .. n -> AckBlkLines] :
         LET s0 == St(In(FALSE, TRUE, TRUE, FALSE))
             s1 == IF n = 0 THEN s0 ELSE BM_HandleHostLine(s0, lines[1]).st
             s2 == BM_Pump(s1)
             s3 == IF s2.g_tb.next_blk <= QueueBlocks
                   THEN TB_EnqueueBlock(s2, BlockLines, 0).st
                   ELSE s2
         IN Commit(s3)

NextQueue ==
    \/ QueueBegin
    \/ QueueLoop
    \/ Tick
    \/ COMM_TxCpltCallback

SpecQueue == Init /\ [][NextQueue]_vars

\* SpecRetx: the same transfer with a host that acknowledges or rejects any
\* block, or stays silent.  The history counts, for every block of the
\* burst, its transmissions (sent), those among them that answered a
\* NACK_BLK (nack), and records the blocks whose ACK_BLK found the block
\* inflight (acked).
RetxLines ==
    {HostLine("ACK_BLK", "", TRUE, b, 0) : b \in 1 .. RetxBlocks}
    \cup {HostLine("NACK_BLK", "", TRUE, b, 0) : b \in 1 .. RetxBlocks}

RetxInit ==
    [id |-> 0, phase |-> "none", blk |-> 0,
     stream |-> "none", live |-> -1, live_prev |-> -1,
     sent |-> [b \in 1 .. RetxBlocks |-> 0],
     nack |-> [b \in 1 .. RetxBlocks |-> 0],
     acked |-> {}]

\* the transmissions of block b among the lines written
Transmissions(out, b) ==
    Cardinality({k \in 1 .. Len(out) :
                    out[k].type = "BLOCK_HEADER" /\ out[k].blk = b})

\* the history after a step that handled `lines` in state s0 (s1: after the
\* line, s3: at the end of the step)
RetxObserve(h, s0, lines, s1, s3) ==
    LET found == lines # <<>> /\ _inflight_find_blk(s0, lines[1].arg) # 0
        h1 == ForgetStream(Observe(h, s3.out), s3)
    IN [h1 EXCEPT
          !.sent = [b \in 1 .. RetxBlocks |-> h.sent[b] + Transmissions(s3.out, b)],
          !.nack = [b \in 1 .. RetxBlocks |-> h.nack[b] + Transmissions(s1.out, b)],
          !.acked = IF found /\ lines[1].cmd = "ACK_BLK"
                    THEN @ \cup {lines[1].arg} ELSE @]

RetxBegin ==
    /\ ~g_bm.active /\ g_tb.burst_id = 0
    /\ Commit(BM_Begin(St(In(FALSE, TRUE, TRUE, FALSE)), "BM_TYPE_DAMP_CD", 1,
                       RetxBlocks * BlockLines))

RetxLoop ==
    /\ g_bm.active
    /\ \E n \in 0 .. 1 : \E lines \in [1 .. n -> RetxLines] :
         LET s0 == St(In(FALSE, TRUE, TRUE, FALSE))
             s1 == IF n = 0 THEN s0 ELSE BM_HandleHostLine(s0, lines[1]).st
             s2 == BM_Pump(s1)
             s3 == Normalize(IF s2.g_tb.next_blk <= RetxBlocks
                             THEN TB_EnqueueBlock(s2, BlockLines, 0).st
                             ELSE s2)
         IN CommitHist(s3, RetxObserve(hist, s0, lines, s1, s3))

NextRetx ==
    \/ RetxBegin
    \/ RetxLoop
    \/ Tick
    \/ COMM_TxCpltCallback

InitRetx == InitHist(RetxInit)

SpecRetx == InitRetx /\ [][NextRetx]_vars

\* SpecAcq: the sensor fills its FIFO and raises the watermark interrupt,
\* the I2C transfers end or fail, and the main loop starts and stops the
\* sampling and takes samples from the ring, in any order.
AcqRest ==
    UNCHANGED <<ctx, g_bm, g_tb, burst, g_cd, trig, sensor, comm, stream, tx,
                hist, txr>>

AcqSample ==
    /\ acq.produced < MaxAcq
    /\ acq' = FifoPush(acq)
    /\ AcqRest

AcqExti ==
    /\ Len(acq.fifo) >= FIFO_WATERMARK
    /\ acq' = HAL_GPIO_EXTI_Callback(acq)
    /\ AcqRest

AcqCplt ==
    /\ acq.bus # "none"
    /\ acq' = MemRxCplt(TransferDone(acq))
    /\ AcqRest

AcqError ==
    /\ acq.bus # "none"
    /\ acq.i2c_fail < MaxCount
    /\ acq' = I2cError([acq EXCEPT !.bus = "none"])
    /\ AcqRest

AcqStart ==
    /\ acq' = Sensor_StartSampling_ring(acq)
    /\ AcqRest

AcqStop ==
    /\ acq' = Sensor_StopSampling_ring(acq)
    /\ AcqRest

AcqGet ==
    /\ Sensor_GetSample_ret(acq)
    /\ acq' = Sensor_GetSample(acq)
    /\ AcqRest

NextAcq ==
    \/ AcqSample
    \/ AcqExti
    \/ AcqCplt
    \/ AcqError
    \/ AcqStart
    \/ AcqStop
    \/ AcqGet

SpecAcq == Init /\ [][NextAcq]_vars

\* SpecModes: a host that walks through the operating modes, in the nominal
\* environment; no sample exceeds the trigger threshold.
MainLoopModes == MainLoopEnv(ModeLines, ModeStarts, {FALSE}, {FALSE})

NextModes ==
    \/ MainLoopModes
    \/ Tick
    \/ SensorBatch
    \/ COMM_TxCpltCallback

SpecModes == Init /\ [][NextModes]_vars

\* ------------------------------------------------------------------------
\* Properties of the block transport (checked under Spec)
\* ------------------------------------------------------------------------
IsFirstTx(r) == r.type = "BLOCK_HEADER" /\ r.retries = 0
IsRetx(r) == r.type = "BLOCK_HEADER" /\ r.retries > 0

\* block numbers of the entries the inflight array points to
InflightBlks(tb) == {tb.queue[tb.inflight[i]].blk : i \in 1 .. Len(tb.inflight)}

\* C6: in every reachable state the number of inflight blocks is at most the
\* configured window, and at most TB_MAX_INFLIGHT = 8.
C6_InflightWithinWindow ==
    /\ Len(g_tb.inflight) <= g_tb.window
    /\ g_tb.window <= TB_MAX_INFLIGHT
    /\ Cardinality({e \in Slots : g_tb.queue[e].inflight}) <= g_tb.window

\* the window is full while a block waits in the queue
C6_WindowFullBlockWaiting ==
    /\ g_tb.burst_active
    /\ Len(g_tb.inflight) = g_tb.window
    /\ g_tb.q_count > 0

\* the first transmissions among `out` continue the numbering recorded in h:
\* each carries the burst id of the latest DATA_HEADER and the number that
\* follows the previous first transmission (1 after the DATA_HEADER)
RECURSIVE FirstTxDense(_, _)
FirstTxDense(h, out) ==
    IF out = <<>> THEN TRUE
    ELSE /\ IsFirstTx(Head(out)) =>
              /\ Head(out).burst_id = h.id
              /\ Head(out).blk = h.blk + 1
         /\ FirstTxDense(ObserveLine(h, Head(out)), Tail(out))

\* the DATA lines between a BLOCK_HEADER and its BLOCK_END belong to the
\* block and have strictly ascending index; prev is the last index seen in
\* the open block (-1 when none), cur the open block (0 when none)
RECURSIVE DataAscending(_, _, _)
DataAscending(out, cur, prev) ==
    IF out = <<>> THEN TRUE
    ELSE LET r == Head(out)
         IN IF r.type = "BLOCK_HEADER" THEN DataAscending(Tail(out), r.blk, -1)
            ELSE IF r.type = "BLOCK_END" THEN DataAscending(Tail(out), 0, -1)
            ELSE IF r.type = "DATA"
            THEN /\ r.blk = cur
                 /\ r.idx > prev
                 /\ DataAscending(Tail(out), cur, r.idx)
            ELSE DataAscending(Tail(out), cur, prev)

\* C5: for every burst the first transmissions of its blocks carry the block
\* numbers 1, 2, ..., N in ascending order without gap or repeat, and within
\* every transmitted block the DATA lines have ascending line index.
C5_FirstTransmissionsDense ==
    [][FirstTxDense(hist, tx') /\ DataAscending(tx', 0, -1)]_vars

\* the last block of a burst of MaxBlk blocks has just gone out for the first
\* time, with more than one DATA line in some block of the step
C5_LastBlockFirstSent ==
    /\ hist.blk = MaxBlk
    /\ \E i \in 1 .. Len(tx) : IsFirstTx(tx[i]) /\ tx[i].blk = MaxBlk
    /\ \E i \in 1 .. Len(tx) : tx[i].type = "DATA" /\ tx[i].idx = SAMPLES_PER_BURST - 1

\* C4 as stated: a block is retransmitted only if it is the oldest inflight
\* block; no younger inflight block is retransmitted while an older one is
\* (before and after the step) still inflight.
C4_OnlyOldestRetransmitted ==
    [][\A i \in 1 .. Len(tx') :
          IsRetx(tx'[i]) =>
             ~\E b \in InflightBlks(g_tb) \cap InflightBlks(g_tb') :
                  b < tx'[i].blk]_vars

\* C4 as the code has it: a block is retransmitted only if it is in the
\* inflight set and its retry count was below max_retries; its position
\* among the inflight blocks does not matter.
C4_OnlyInflightRetransmitted ==
    [][\A i \in 1 .. Len(tx') :
          IsRetx(tx'[i]) =>
             /\ tx'[i].blk \in InflightBlks(g_tb)
             /\ tx'[i].retries <= g_tb.max_retries]_vars

\* block 2 has just been retransmitted while block 1 is still inflight
C4_YoungerRetransmitted ==
    /\ \E i \in 1 .. Len(tx) : IsRetx(tx[i]) /\ tx[i].blk = 2
    /\ ~\E i \in 1 .. Len(tx) : tx[i].type = "BLOCK_HEADER" /\ tx[i].blk = 1
    /\ {1, 2} \subseteq InflightBlks(g_tb)

\* ------------------------------------------------------------------------
\* Properties of the burst session
\* ------------------------------------------------------------------------
\* nominal inputs of a handler applied to the current state
NominalIn == In(FALSE, TRUE, TRUE, FALSE)

\* C1 (checked under SpecTrigger): when the ACK_COMPLETE of a burst that has
\* been sent is processed (the session goes from active, waiting for
\* ACK_COMPLETE, to inactive), OpMode becomes WaitArm for a DAMP_TRG burst and
\* the mode that was current before the burst for a DAMP_CD burst.
C1_ModeAfterAckComplete ==
    [][(/\ g_bm.active /\ g_bm.waiting_ack_complete
        /\ ctx.op_mode = "OP_MODE_BURST_SENDING"
        /\ ~ctx.burst_abort_pending
        /\ ~g_bm'.active)
       => ctx'.op_mode = IF g_bm.type = "BM_TYPE_DAMP_TRG"
                         THEN "OP_MODE_WAIT_ARM"
                         ELSE burst.g_mode_before_burst]_vars

\* no first transmission of a block of the burst recorded in h follows that
\* burst's COMPLETE
RECURSIVE NoBlockAfterComplete(_, _)
NoBlockAfterComplete(h, out) ==
    IF out = <<>> THEN TRUE
    ELSE /\ (IsFirstTx(Head(out)) /\ Head(out).burst_id = h.id) => h.phase # "closed"
         /\ NoBlockAfterComplete(ObserveLine(h, Head(out)), Tail(out))

\* C2: the COMPLETE line of a burst is emitted only after the last block of
\* the burst has been handed to the TX layer: no block of the burst goes out
\* for the first time after the burst's COMPLETE.
C2_CompleteAfterLastBlock == [][NoBlockAfterComplete(hist, tx')]_vars

\* C3: when STOP is handled while a burst session is active, the transport's
\* inflight set and queue are empty afterwards.
C3_StopClearsTransport ==
    (g_bm.active /\ ctx.op_mode \in {"OP_MODE_BURST", "OP_MODE_BURST_SENDING"})
    => \A flushed \in BOOLEAN :
          LET s == CmdHandler_HandleStop(St(In(FALSE, flushed, TRUE, FALSE)))
          IN s.g_tb.inflight = <<>> /\ s.g_tb.q_count = 0

\* inflight entries whose last transmission is at least one timeout old
TimedOut(tb) ==
    {i \in 1 .. Len(tb.inflight) :
        /\ tb.queue[tb.inflight[i]].inflight
        /\ tb.queue[tb.inflight[i]].age >= PROTO_BLOCK_TIMEOUT_MS}

Exhausted(tb) ==
    {i \in TimedOut(tb) : tb.queue[tb.inflight[i]].retries >= tb.max_retries}

\* C7: on a transport pump every inflight block whose last transmission is at
\* least PROTO_BLOCK_TIMEOUT_MS old is resent with retries incremented and its
\* send time refreshed while retries < max_retries; a block is never resent
\* more than max_retries = 3 times; and when a timed-out block has used up its
\* retries the pump of the session emits COMPLETE with reason aborted, code
\* 400 and the session's burst id.
C7_TimeoutResendThenAbort400 ==
    (g_bm.active /\ g_tb.burst_active) =>
       LET s0 == St(NominalIn)
           s1 == TB_Pump(s0)
           s2 == BM_Pump(s0)
       IN /\ g_tb.max_retries = PROTO_MAX_RETRIES
          /\ \A e \in Slots : g_tb.queue[e].retries <= g_tb.max_retries
          /\ Exhausted(g_tb) = {} =>
               \A i \in TimedOut(g_tb) :
                  LET e == g_tb.inflight[i]
                  IN /\ s1.g_tb.queue[e].retries = g_tb.queue[e].retries + 1
                     /\ s1.g_tb.queue[e].age = 0
                     /\ \E k \in 1 .. Len(s1.out) :
                           /\ s1.out[k].type = "BLOCK_HEADER"
                           /\ s1.out[k].blk = g_tb.queue[e].blk
                           /\ s1.out[k].retries = g_tb.queue[e].retries + 1
          /\ Exhausted(g_tb) # {} =>
               \E k \in 1 .. Len(s2.out) :
                  s2.out[k] = [type |-> "COMPLETE", burst_id |-> g_bm.burst_id,
                               reason |-> "aborted", code |-> ABORT_CODE_TIMEOUT]

\* C8: an ACK_COMPLETE without burst_id, or with the burst_id of the active
\* session, makes the session inactive and leaves the transport's inflight
\* set empty; an ACK_COMPLETE with another burst_id leaves the session
\* unchanged.
C8_AckCompleteFinalizes ==
    g_bm.active =>
       /\ \A line \in {HostLine("ACK_COMPLETE", "", FALSE, 0, 0),
                       HostLine("ACK_COMPLETE", "", TRUE, g_bm.burst_id, 0)} :
             LET s == process_command(St(NominalIn), line)
             IN ~s.g_bm.active /\ s.g_tb.inflight = <<>>
       /\ \A b \in (1 .. MaxBursts + 1) \ {g_bm.burst_id} :
             LET s == process_command(St(NominalIn),
                                      HostLine("ACK_COMPLETE", "", TRUE, b, 0))
             IN s.g_bm = g_bm /\ s.g_tb = g_tb

\* ------------------------------------------------------------------------
\* Properties of the handshake
\* ------------------------------------------------------------------------
HelloLine == HostLine("HELLO", "", FALSE, 0, 0)

\* C9: in every state a HELLO line makes the device emit HELLO_ACK with fw
\* "3.3.7", proto 3.3.3, win 4 and blk_lines 128, followed by STATUS with
\* op IDLE, trg idle and axis MAG.
C9_HelloAckThenStatus ==
    process_command(St(NominalIn), HelloLine).out =
       <<[type |-> "HELLO_ACK", fw |-> "3.3.7", proto |-> "3.3.3",
          win |-> 4, blk_lines |-> 128],
         [type |-> "STATUS", op |-> "IDLE", trg |-> "idle", axis |-> "MAG"]>>

\* C10 (checked under SpecFaults): after HELLO every diagnostic counter is
\* zero, time sync and the stop flag are clear and OpMode is Idle, and a
\* second HELLO changes nothing.  The states looked at are those in which
\* the TX ring has room, so that the replies to HELLO are not themselves
\* dropped and counted.
C10_HelloClearsDiagnostics ==
    LET s1 == process_command(St(NominalIn), HelloLine)
        s2 == process_command([s1 EXCEPT !.out = <<>>], HelloLine)
    IN comm.tx_state # "full" =>
       /\ s1.ctx.diag.i2c_fail = 0
       /\ s1.ctx.diag.ring_ovf = 0
       /\ s1.ctx.diag.live_drops = 0
       /\ s1.ctx.diag.hb_pauses = 0
       /\ s1.comm.s_tx_drop_count = 0
       /\ s1.comm.s_rx_overflow_count = 0
       /\ ~s1.ctx.tsync.has_sync
       /\ ~s1.ctx.stop_flag
       /\ s1.ctx.op_mode = "OP_MODE_IDLE"
       /\ [s2 EXCEPT !.out = <<>>] = [s1 EXCEPT !.out = <<>>]
\* ------------------------------------------------------------------------
\* Properties of the command handler
\* ------------------------------------------------------------------------
StopLine == HostLine("STOP", "", FALSE, 0, 0)
StopForceLine == HostLine("STOP", "FORCE", FALSE, 0, 0)

HasLine(out, r) == \E i \in 1 .. Len(out) : out[i] = r

\* what the device is doing besides its mode: sampling, streaming,
\* countdown, calibration and the burst session
Activity(s) ==
    [sampling |-> s.sensor.g_sampling_active, stream |-> s.stream,
     g_cd |-> s.g_cd, trig |-> s.trig, burst |-> s.burst,
     g_bm |-> s.g_bm, g_tb |-> s.g_tb]

\* C11: in Armed, STOP without ,FORCE is answered with
\* NACK,SUBJECT=STOP,reason=blocked_while_armed,code=201 and changes neither
\* the mode, the trigger state, sampling nor the calibration; the iteration
\* of the main loop that receives STOP,FORCE answers ACK,SUBJECT=STOP and
\* ends in WaitArm, whatever the sensor delivers meanwhile.
C11_StopInArmed ==
    \A flushed \in BOOLEAN, exceeds \in BOOLEAN :
      ctx.op_mode = "OP_MODE_ARMED" =>
        LET s0 == St(In(FALSE, flushed, TRUE, exceeds))
            n == process_command(s0, StopLine)
            f == LoopBody(s0, <<StopForceLine>>)
        IN /\ n.out = <<[type |-> "NACK", subject |-> "STOP",
                         reason |-> "blocked_while_armed", code |-> 201]>>
           /\ n.ctx = s0.ctx
           /\ Activity(n) = Activity(s0)
           /\ HasLine(f.out, [type |-> "ACK", subject |-> "STOP"])
           /\ f.ctx.op_mode = "OP_MODE_WAIT_ARM"

\* the stall test of the OP_MODE_BURST case is due: a sample has been
\* collected, the burst is short of its target and of its time, and the last
\* sample is more than STALL_MS old
StallDue ==
    /\ ctx.op_mode = "OP_MODE_BURST"
    /\ sensor.ring = 0
    /\ burst.samples_collected_in_burst > 0
    /\ burst.samples_collected_in_burst < BurstTargetSamples(St(NominalIn))
    /\ ctx.state_age < BurstUseMs(St(NominalIn))
    /\ burst.last_sample_age > STALL_MS

\* the lines written by n further calls of BurstManager_Pump
RECURSIVE PumpOut(_, _)
PumpOut(s, n) ==
    IF n = 0 THEN s.out
    ELSE s.out \o PumpOut(BurstManager_Pump([s EXCEPT !.out = <<>>]), n - 1)

\* C12: when the stall test is due, BurstManager_Pump emits
\* ERROR,src=BURST,code=500,msg="sampling_stalled", the burst is aborted
\* (its collection ends) and COMPLETE,reason=aborted,code=999 follows for
\* that burst.
C12_StallAbortsWithComplete ==
    StallDue =>
      LET s0 == St(NominalIn)
          a == BurstManager_Pump(s0)
      IN /\ HasLine(a.out, [type |-> "ERROR", src |-> "BURST", code |-> 500,
                            msg |-> "sampling_stalled"])
         /\ a.ctx.op_mode # "OP_MODE_BURST"
         /\ HasLine(PumpOut(a, 3),
                    [type |-> "COMPLETE", burst_id |-> s0.burst.g_current_burst_id,
                     reason |-> "aborted", code |-> ABORT_CODE_STALL])

\* C13: NACK_BLK,blk=N,code=C for an inflight block N retransmits the block
\* with retries incremented while retries < max_retries; otherwise the burst
\* is aborted and the session emits COMPLETE with reason aborted and code C,
\* or 400 when C is absent or 0.
C13_NackRetransmitsOrAborts ==
    \A i \in 1 .. Len(g_tb.inflight), c \in {0, 7} :
      LET e == g_tb.inflight[i]
          N == g_tb.queue[e].blk
          s0 == St(NominalIn)
          s1 == process_command(s0, HostLine("NACK_BLK", "", TRUE, N, c))
          s2 == BM_Pump([s1 EXCEPT !.out = <<>>])
          wire == s1.out \o s2.out
      IN IF g_tb.queue[e].retries < g_tb.max_retries
         THEN /\ s1.g_tb.queue[e].retries = g_tb.queue[e].retries + 1
              /\ \E k \in 1 .. Len(s1.out) :
                    /\ s1.out[k].type = "BLOCK_HEADER"
                    /\ s1.out[k].blk = N
                    /\ s1.out[k].retries = g_tb.queue[e].retries + 1
         ELSE /\ s1.g_tb.inflight = <<>>
              /\ \E k \in 1 .. Len(wire) :
                    /\ wire[k].type = "COMPLETE"
                    /\ wire[k].reason = "aborted"
                    /\ wire[k].code = IF c # 0 THEN c ELSE 400

\* block numbers a host can name: those of the burst, the next one, and
\* numbers beyond the range of uint16_t
AckNumbers == (1 .. MaxBlk + 1) \cup {65536 + b : b \in 1 .. MaxBlk}

\* C14: ACK_BLK,blk=N removes block N from the inflight set if it is there; a
\* number that is not inflight (acknowledged already, not yet sent, or beyond
\* 65535) changes nothing in the transport; a second ACK_BLK for the same
\* number changes nothing.
C14_AckBlkOnlyInflight ==
    \A N \in AckNumbers :
      LET s0 == St(NominalIn)
          s1 == process_command(s0, HostLine("ACK_BLK", "", TRUE, N, 0))
          s2 == process_command(s1, HostLine("ACK_BLK", "", TRUE, N, 0))
      IN /\ N \in InflightBlks(g_tb) =>
              InflightBlks(s1.g_tb) = InflightBlks(g_tb) \ {N}
         /\ N \notin InflightBlks(g_tb) => s1.g_tb = g_tb
         /\ s2.g_tb = s1.g_tb

\* the commands with a mode guard, and the modes in which each is accepted
GuardedLines ==
    {HostLine("STREAM_START", "", FALSE, 0, 0),
     HostLine("START_BURST_WEIGHT", "", TRUE, 1, 0),
     HostLine("START_BURST_DAMPING", "", TRUE, 1, 0),
     HostLine("GET_PREVIEW", "", FALSE, 0, 0),
     HostLine("ZERO", "", FALSE, 0, 0),
     HostLine("MODE", "TRIGGER_ON", FALSE, 0, 0),
     HostLine("CAL_READY", "hold_zero", FALSE, 0, 0),
     HostLine("ARM", "", FALSE, 0, 0)}

AcceptModes(line) ==
    IF line.cmd = "CAL_READY" THEN {"OP_MODE_WAIT_CAL_ZERO"}
    ELSE IF line.cmd = "ARM" THEN {"OP_MODE_WAIT_ARM", "OP_MODE_ARMED"}
    ELSE {"OP_MODE_IDLE"}

BadState(line) ==
    [type |-> "NACK", subject |-> line.cmd, reason |-> "bad_state", code |-> 103]

RefusableLines ==
    GuardedLines \cup
    {HostLine("MODE", "TRIGGER_ON", TRUE, 3, 0),
     HostLine("MODE", "TRIGGER_ON", TRUE, 11, 0),
     HostLine("START_BURST_WEIGHT", "", TRUE, 0, 0),
     HostLine("START_BURST_DAMPING", "", TRUE, 601, 0),
     TrgLine({"hold_ms"}, 0, 0, 50),
     HostLine("_TEST_FORCE_TRIGGER", "", FALSE, 0, 0),
     StopLine,
     CfgLine(-1, 0, -1, -1), CfgLine(-1, -1, 50, -1), CfgLine(100, -1, -1, 200),
     CfgLine(-1, -1, -1, 300)}

\* the device state named by the claim
DeviceState(s) ==
    [op_mode |-> s.ctx.op_mode, trg_state |-> s.ctx.trg_state,
     cfg |-> s.ctx.cfg, trigger_settings |-> s.ctx.trigger_settings,
     sampling |-> s.sensor.g_sampling_active,
     streaming |-> s.stream.g_stream_enabled,
     g_cd |-> s.g_cd, zero_cal |-> s.trig.zero_cal,
     burst |-> s.burst, g_bm |-> s.g_bm]

\* C17: a command that is answered with a NACK of code 102, 103, 104 or 201
\* leaves the mode, the trigger state, the configuration, the trigger
\* settings, sampling, streaming, the countdown, the calibration and the
\* burst session as they were.
C17_RejectedLeavesState ==
    \A line \in RefusableLines :
      LET s0 == St(NominalIn)
          s1 == process_command(s0, line)
      IN (\E k \in 1 .. Len(s1.out) :
             /\ s1.out[k].type = "NACK"
             /\ s1.out[k].code \in {102, 103, 104, 201})
         => DeviceState(s1) = DeviceState(s0)

LineTooLong ==
    [type |-> "NACK", subject |-> "UNKNOWN", reason |-> "line_too_long",
     code |-> 300]

\* the payload bytes received since the last terminator number more than 254
PayloadOver254 == comm.line_truncated \/ comm.line_len > 254

\* C18: when more than 254 payload bytes have been received, the terminator
\* (CR, LF or CRLF) produces exactly one
\* NACK,SUBJECT=UNKNOWN,reason=line_too_long,code=300 and nothing else: no
\* command is dispatched.
C18_LongLineRejected ==
    PayloadOver254 =>
      \A term \in {<<"\r">>, <<"\n">>, <<"\r", "\n">>}, cmd \in RxCommands :
        LET s0 == St(NominalIn)
            s1 == COMM_Process_Budgeted(s0, term, cmd)
        IN /\ s1.out = <<LineTooLong>>
           /\ s1.ctx = s0.ctx
           /\ Activity(s1) = Activity(s0)

SupportedOdr == {100, 200, 400, 800, 1600, 3200}

\* C19: the configuration always has a supported odr_hz, burst_ms within
\* 1..600000, hb_ms 0 or at least 100, and a stream_rate_hz that is at most
\* odr_hz and, unless 0, divides it.
C19_CfgValid ==
    /\ ctx.cfg.odr_hz \in SupportedOdr
    /\ ctx.cfg.burst_ms >= 1 /\ ctx.cfg.burst_ms <= 600000
    /\ ctx.cfg.hb_ms = 0 \/ ctx.cfg.hb_ms >= 100
    /\ ctx.cfg.stream_rate_hz <= ctx.cfg.odr_hz
    /\ ctx.cfg.stream_rate_hz # 0 => ctx.cfg.odr_hz % ctx.cfg.stream_rate_hz = 0

\* every field has been changed by accepted commands
C19_AllFieldsChanged ==
    ctx.cfg = [odr_hz |-> 3200, burst_ms |-> 1, hb_ms |-> 100,
               stream_rate_hz |-> 200]

\* the smallest supported rate that is at least req, 3200 above that
SnapUp(req) ==
    IF req > 3200 THEN 3200
    ELSE CHOOSE r \in SupportedOdr :
             r >= req /\ \A q \in SupportedOdr : q >= req => r <= q

OdrRequests == {1, 100, 101, 150, 200, 399, 800, 801, 1600, 3199, 3200, 5000}

\* C20: an accepted SET_CFG,odr_hz=req stores the smallest supported rate
\* that is greater than or equal to req (3200 for larger requests).
C20_OdrSnapsUp ==
    \A req \in OdrRequests :
      LET s1 == process_command(St(NominalIn), CfgLine(req, -1, -1, 0))
      IN HasLine(s1.out, [type |-> "ACK", subject |-> "SET_CFG"])
         => s1.ctx.cfg.odr_hz = SnapUp(req)

\* the ids of the COUNTDOWN_ID lines among the lines written
RECURSIVE CountdownIds(_)
CountdownIds(out) ==
    IF out = <<>> THEN <<>>
    ELSE IF Head(out).type = "COUNTDOWN"
    THEN <<Head(out).id>> \o CountdownIds(Tail(out))
    ELSE CountdownIds(Tail(out))

\* n times: one second passes, then Countdown_Tick runs
RECURSIVE CountdownRun(_, _)
CountdownRun(s, n) ==
    IF n = 0 THEN s
    ELSE CountdownRun(Countdown_Tick(Elapse(s, COUNTDOWN_STEP_MS)), n - 1)

\* from, from - 1, ..., 1
Descending(from) == [i \in 1 .. from |-> from + 1 - i]

ClampSeconds(seconds) ==
    IF seconds < 5 THEN 5 ELSE IF seconds > 10 THEN 10 ELSE seconds

C23_StopResets ==
    \A flushed \in BOOLEAN :
      LET s0 == St(In(FALSE, flushed, TRUE, FALSE))
          s1 == CmdHandler_HandleStop(s0)
      IN ~BM_IsActive(s0) =>
           /\ ~s1.sensor.g_sampling_active
           /\ ~s1.stream.g_stream_enabled
           /\ ~s1.g_cd.active
           /\ CountdownIds(CountdownRun([s1 EXCEPT !.out = <<>>], 1).out) = <<>>
           /\ s1.trig = Trigger_Reset(s1).trig
           /\ s1.burst = BurstManager_Reset(s1).burst
           /\ s1.ctx.op_mode = IF s0.ctx.op_mode = "OP_MODE_ARMED"
                               THEN "OP_MODE_WAIT_ARM" ELSE "OP_MODE_IDLE"

\* the changes of TrgState the protocol allows
TrgEdges ==
    {<<"TRG_STATE_IDLE", "TRG_STATE_ARMED">>,
     <<"TRG_STATE_ARMED", "TRG_STATE_IN_HOLDOFF">>,
     <<"TRG_STATE_IN_HOLDOFF", "TRG_STATE_ARMED">>}

\* s1 is the result of a handler run from the current state
TrgEdgeOk(s1) ==
    s1.ctx.trg_state # ctx.trg_state
        => <<ctx.trg_state, s1.ctx.trg_state>> \in TrgEdges

\* C24: TrgState changes only from Idle to Armed, from Armed to Holdoff and
\* from Holdoff to Armed; it never goes from Idle to Holdoff or back to Idle:
\* no command and no pump of the main loop, run from a reachable state,
\* changes it in another way.
C24_TrgStateEdges ==
    /\ \A l \in TriggerLines \cup TriggerStart \cup ModeLines :
         TrgEdgeOk(process_command(St(NominalIn), l))
    /\ \A e \in BOOLEAN : TrgEdgeOk(Trigger_Pump(St(In(FALSE, TRUE, TRUE, e))))
    /\ TrgEdgeOk(BurstManager_Pump(St(NominalIn)))
    /\ TrgEdgeOk(Countdown_Tick(St(NominalIn)))

\* the trigger has fired, the hold-off has run out and the state is Armed
\* again
C24_ArmedAgain ==
    ctx.trg_state = "TRG_STATE_ARMED" /\ burst.g_burst_id_counter > 0

\* C25: an HB line is written only when hb_ms > 0, the mode is neither
\* Burst nor BurstSending, no burst session awaits ACK_COMPLETE, and at
\* least hb_ms have passed since the previous HB line.
C25_HeartbeatGated ==
    HasLine(Telemetry_Pump(St(NominalIn)).out, [type |-> "HB"]) =>
        /\ ctx.cfg.hb_ms > 0
        /\ ctx.op_mode \notin {"OP_MODE_BURST", "OP_MODE_BURST_SENDING"}
        /\ ~g_bm.waiting_ack_complete
        /\ comm.g_hb_age >= ctx.cfg.hb_ms

\* the documented ranges of TriggerSettings (k_mult in thousandths)
TrgInRange(ts) ==
    /\ ts.k_mult >= 2000 /\ ts.k_mult <= 20000
    /\ ts.win_ms >= 50 /\ ts.win_ms <= 500
    /\ ts.hold_ms >= 100 /\ ts.hold_ms <= 10000

\* the settings a SET_TRG line asks for in state s
TrgRequested(s, line) ==
    [k \in {"k_mult", "win_ms", "hold_ms"} |->
        IF k \in line.keys THEN line.kv[k] ELSE s.ctx.trigger_settings[k]]

\* C21: the trigger settings are always within k_mult 2.0..20.0, win_ms
\* 50..500 and hold_ms 100..10000, and a SET_TRG that would leave a field
\* outside its range is answered with NACK code 102 and changes nothing.
C21_TrgSettingsInRange ==
    /\ TrgInRange(ctx.trigger_settings)
    /\ \A line \in TrgLines :
         line.cmd = "SET_TRG" /\ ~TrgInRange(TrgRequested(St(NominalIn), line)) =>
            LET s1 == process_command(St(NominalIn), line)
            IN /\ HasLine(s1.out, [type |-> "NACK", subject |-> "SET_TRG",
                                   reason |-> "param_range", code |-> 102])
               /\ DeviceState(s1) = DeviceState(St(NominalIn))

\* the hold_ms part of C21, which Parse_SetTrg enforces
TrgHoldInRange ==
    /\ ctx.trigger_settings.hold_ms >= 100
    /\ ctx.trigger_settings.hold_ms <= 10000

\* the BLOCK_END that closes the block whose BLOCK_HEADER is line i of w
BlockEndOf(w, i) ==
    CHOOSE j \in (i + 1) .. Len(w) :
        /\ w[j].type = "BLOCK_END"
        /\ \A k \in (i + 1) .. (j - 1) : w[k].type = "DATA"

\* CRC-16/CCITT-FALSE over the bytes of the lines i .. j of w
RECURSIVE WireCrc(_, _, _, _)
WireCrc(w, i, j, crc) ==
    IF crc \notin 0 .. 65535 \/ i > j THEN crc
    ELSE WireCrc(w, i + 1, j, proto_crc16_update(crc, w[i].text))

\* the check value of CRC-16/CCITT-FALSE: the CRC of "123456789" is 0x29B1
CrcCheckValue ==
    proto_crc16_update(PROTO_CRC16_INIT, <<49, 50, 51, 52, 53, 54, 55, 56, 57>>)
        = 10673

\* C15: for every block on the wire, first transmission or retransmission,
\* the crc16 of BLOCK_HEADER equals the crc16 of BLOCK_END and the
\* CRC-16/CCITT-FALSE of the bytes of the DATA lines sent between them, CRLF
\* included, and the header's lines field is the number of those DATA lines.
C15_BlockCrcMatchesData ==
    \A i \in 1 .. Len(tx) :
        tx[i].type = "BLOCK_HEADER" =>
            LET j == BlockEndOf(tx, i)
            IN /\ tx[i].crc16 = tx[j].crc16
               /\ tx[i].crc16 = WireCrc(tx, i + 1, j - 1, PROTO_CRC16_INIT)
               /\ tx[i].lines = j - i - 1

\* ------------------------------------------------------------------------
\* STATUS lines and changes of the operating mode
\* ------------------------------------------------------------------------
StatusOf(out) == SelectSeq(out, LAMBDA r : r.type = "STATUS")

StatusFor(s) ==
    [type |-> "STATUS", op |-> op_mode_to_str(s.ctx.op_mode),
     trg |-> trg_state_to_str(s.ctx.trg_state), axis |-> "MAG"]

\* s1 is the result of a handler run from the current state: a changed mode
\* comes with exactly one STATUS line that names it, an unchanged mode with
\* none
ChangeStatusOk(s1) ==
    IF s1.ctx.op_mode # ctx.op_mode
    THEN StatusOf(s1.out) = <<StatusFor(s1)>>
    ELSE StatusOf(s1.out) = <<>>

\* the STATUS line of a command follows the acknowledgement of the command
AckBeforeStatus(out) ==
    \A i \in 1 .. Len(out) :
        out[i].type = "STATUS" =>
            \E j \in 1 .. (i - 1) : out[j].type \in {"ACK", "HELLO_ACK"}

\* the commands that can change the mode (GET_STATUS asks for a STATUS line
\* and is not one of them)
ChangeLines ==
    (ModeLines \cup ModeStarts \cup TransportLines \cup FaultLines)
        \ {HostLine("GET_STATUS", "", FALSE, 0, 0)}

\* C26: every change of OpMode to a different value, by a command or by a
\* pump of the main loop, emits exactly one STATUS line that names the new
\* mode and the trigger state, after the ACK of the command that caused it,
\* and a handler that leaves OpMode as it is emits no STATUS line.
C26_ModeChangeStatus ==
    /\ \A l \in ChangeLines :
         LET s1 == process_command(St(NominalIn), l)
         IN ChangeStatusOk(s1) /\ AckBeforeStatus(s1.out)
    /\ ChangeStatusOk(BurstManager_Pump(St(NominalIn)))
    /\ ChangeStatusOk(Trigger_Pump(St(In(FALSE, TRUE, TRUE, TRUE))))
    /\ ChangeStatusOk(Countdown_Tick(St(NominalIn)))

\* ------------------------------------------------------------------------
\* The live stream
\* ------------------------------------------------------------------------
\* C27: within one streaming session (begun by a STREAM_START acknowledged
\* while the stream was off) the seq of the LIVE lines is strictly
\* increasing, no LIVE line follows the acknowledgement of STREAM_STOP
\* before a later STREAM_START, and the first LIVE line after the
\* acknowledgement of STREAM_START has seq 0.
C27_LiveSeq ==
    /\ (hist.stream = "start" /\ hist.live_prev >= 0)
           => hist.live > hist.live_prev
    /\ hist.stream = "stop" => hist.live = -1
    /\ (hist.stream = "start" /\ hist.live >= 0 /\ hist.live_prev = -1)
           => hist.live = 0

\* ------------------------------------------------------------------------
\* Weight bursts
\* ------------------------------------------------------------------------
CountLines(out, types) == Len(SelectSeq(out, LAMBDA r : r.type \in types))

\* C28: the BurstManager_Pump that ends the collection of a WEIGHT burst
\* started with cycles=N has collected exactly N samples and writes a single
\* SUMMARY line computed over those N samples, and no DATA_HEADER,
\* BLOCK_HEADER or COMPLETE line.
C28_WeightSummary ==
    (ctx.op_mode = "OP_MODE_BURST" /\ burst.g_current_kind = "KIND_WEIGHT") =>
        LET s1 == BurstManager_Pump(St(NominalIn))
        IN s1.ctx.op_mode # "OP_MODE_BURST" =>
             /\ s1.out # <<>>
             /\ \A i \in 1 .. Len(s1.out) :
                  s1.out[i].type = "SUMMARY" =>
                      s1.out[i].samples = burst.g_burst_param_cycles
             /\ CountLines(s1.out, {"SUMMARY"}) = 1
             /\ CountLines(s1.out, {"DATA_HEADER", "BLOCK_HEADER", "COMPLETE"}) = 0

\* ------------------------------------------------------------------------
\* Diagnostic counters
\* ------------------------------------------------------------------------
\* C29: in a run without HELLO no step lowers a diagnostic counter
\* (i2c_fail, ring_ovf, live_drops, hb_pauses, tx_drops, rx_overflow).
C29_DiagMonotonic ==
    [][/\ ctx'.diag.i2c_fail >= ctx.diag.i2c_fail
       /\ ctx'.diag.ring_ovf >= ctx.diag.ring_ovf
       /\ ctx'.diag.live_drops >= ctx.diag.live_drops
       /\ ctx'.diag.hb_pauses >= ctx.diag.hb_pauses
       /\ comm'.s_tx_drop_count >= comm.s_tx_drop_count
       /\ comm'.s_rx_overflow_count >= comm.s_rx_overflow_count]_vars

\* ------------------------------------------------------------------------
\* The TX ring
\* ------------------------------------------------------------------------
\* the bytes of the ring from tail to head, in the order the UART gets them
RECURSIVE RingBytes(_, _)
RingBytes(t, i) ==
    IF i = t.tx_ring_head THEN <<>>
    ELSE <<t.tx_ring_buffer[i]>> \o RingBytes(t, (i + 1) % COMM_TX_RING_SIZE)

\* the bytes whose transfer has completed
TxCompleted(t) ==
    IF t.dma_running
    THEN SubSeq(t.wire, 1, Len(t.wire) - t.tx_dma_active_len)
    ELSE t.wire

IsPrefix(a, b) == Len(a) <= Len(b) /\ a = SubSeq(b, 1, Len(a))

C31_RoomAfterWrite ==
    \A k \in 1 .. Len(acq.writes) :
        (acq.writes[k][1] + 1) % SAMPLE_RING_BUFFER_SIZE # acq.writes[k][2]

\* C31 (amended): immediately after every successful write of the producer,
\* head # tail: the producer writes only while (head + 1) mod size # tail
\* holds BEFORE the write, so a write never makes the ring look empty and
\* never reaches the unread tail slot, but it may fill the last free slot.
C31_NotEmptyAfterWrite ==
    \A k \in 1 .. Len(acq.writes) : acq.writes[k][1] # acq.writes[k][2]

\* a write has filled the last free slot of the ring
C31_RingFilled ==
    \E k \in 1 .. Len(acq.writes) :
        (acq.writes[k][1] + 1) % SAMPLE_RING_BUFFER_SIZE = acq.writes[k][2]

\* C32: the acquisition state is changed by the interrupt chain only: while
\* a transfer is under way no main-loop operation (start or stop of the
\* sampling, taking a sample) changes g_i2c_state; the EXTI callback starts
\* a cycle only from Idle with sampling active; a rejected EXTI counts one
\* rejection and leaves the state unchanged.
C32_StateOnlyByIsr ==
    /\ acq.bus # "none" =>
         /\ Sensor_StartSampling_ring(acq).g_i2c_state = acq.g_i2c_state
         /\ Sensor_StopSampling_ring(acq).g_i2c_state = acq.g_i2c_state
         /\ Sensor_GetSample(acq).g_i2c_state = acq.g_i2c_state
    /\ LET a1 == HAL_GPIO_EXTI_Callback(acq)
           rejected(a) == a.g_debug_exti_rejected_sampling
                          + a.g_debug_exti_rejected_state
       IN /\ (a1.bus # acq.bus \/ a1.g_i2c_state # acq.g_i2c_state) =>
               acq.g_sampling_active /\ acq.g_i2c_state = "I2C_STATE_IDLE"
          /\ (~acq.g_sampling_active \/ acq.g_i2c_state # "I2C_STATE_IDLE") =>
               /\ a1.g_i2c_state = acq.g_i2c_state
               /\ rejected(acq) < MaxCount => rejected(a1) = rejected(acq) + 1

\* C40: a completed data transfer appends no more samples than it had
\* requested, and the consumer receives the samples at most once and in
\* acquisition order.
C40_OnlyFreshSamples ==
    /\ Len(acq.writes) <= acq.requested
    /\ \A i, j \in 1 .. Len(acq.got) :
         (i < j /\ acq.got[i] > 0 /\ acq.got[j] > 0) => acq.got[i] < acq.got[j]

\* ------------------------------------------------------------------------
\* Configuration writes (C33)
\* ------------------------------------------------------------------------
RuntimeCfg(s) ==
    [odr_hz |-> s.ctx.cfg.odr_hz, stream_rate_hz |-> s.ctx.cfg.stream_rate_hz,
     g_stream_div |-> s.stream.g_stream_div]

\* C33: a command changes odr_hz, stream_rate_hz or the decimation divider
\* only while OpMode is Idle and neither a live stream nor a block session
\* is running.
C33_CfgOnlyInIdle ==
    \A l \in CfgLines :
        LET s0 == St(NominalIn)
            s1 == process_command(s0, l)
        IN RuntimeCfg(s1) # RuntimeCfg(s0) =>
             /\ ctx.op_mode = "OP_MODE_IDLE"
             /\ ~stream.g_stream_enabled
             /\ ~BM_IsActive(s0)

\* ------------------------------------------------------------------------
\* Queue slots of inflight blocks (C34)
\* ------------------------------------------------------------------------
\* the slots the inflight set points to
InflightSet(tb) == {tb.inflight[i] : i \in 1 .. Len(tb.inflight)}

\* C34: no step changes the block number, the line count, the CRC or the
\* generator of an entry the inflight set points to, or lowers its retry
\* count, unless the step takes the entry out of the inflight set.
C34_InflightSlotsKept ==
    [][\A e \in InflightSet(g_tb) \cap InflightSet(g_tb') :
          /\ g_tb'.queue[e].blk = g_tb.queue[e].blk
          /\ g_tb'.queue[e].lines = g_tb.queue[e].lines
          /\ g_tb'.queue[e].crc16 = g_tb.queue[e].crc16
          /\ g_tb'.queue[e].user = g_tb.queue[e].user
          /\ g_tb'.queue[e].retries >= g_tb.queue[e].retries]_vars

\* ------------------------------------------------------------------------
\* Trigger and OpMode (C35)
\* ------------------------------------------------------------------------
\* C35: Trigger_Pump emits TRIGGER_EDGE and starts a triggered burst only
\* while OpMode is Armed, whether the sample exceeds the threshold or the
\* test trigger is pending.
C35_TriggerOnlyInArmed ==
    \A e \in BOOLEAN :
        LET s0 == St(In(FALSE, TRUE, TRUE, e))
            s1 == Trigger_Pump(s0)
        IN (CountLines(s1.out, {"TRIGGER_EDGE"}) > 0
            \/ s1.burst.g_burst_id_counter # s0.burst.g_burst_id_counter)
           => ctx.op_mode = "OP_MODE_ARMED"

\* ------------------------------------------------------------------------
\* Termination of a burst without host input (C36)
\* ------------------------------------------------------------------------
\* C36: with a host that sends nothing after the start of the burst, a
\* device in BurstSending with blocks waiting for their ACK_BLK eventually
\* is in Idle or WaitArm.
C36_BurstTerminates ==
    (ctx.op_mode = "OP_MODE_BURST_SENDING" /\ g_tb.inflight # <<>>)
        ~> (ctx.op_mode \in {"OP_MODE_IDLE", "OP_MODE_WAIT_ARM"})

\* C37: whenever the mode is WaitArm the trigger is zero-calibrated, so that
\* ARM in WaitArm is never answered with zero_not_calibrated
C37_WaitArmCalibrated ==
    ctx.op_mode = "OP_MODE_WAIT_ARM" => trig.zero_cal

\* ------------------------------------------------------------------------
\* Idle and the block session (C38)
\* ------------------------------------------------------------------------
\* SpecIdle: a countdown burst whose host never acknowledges and sends HELLO
\* or MODE,TRIGGER_OFF at any moment, also while the blocks are being sent.
IdleLines ==
    {HostLine("HELLO", "", FALSE, 0, 0),
     HostLine("MODE", "TRIGGER_OFF", FALSE, 0, 0)}

MainLoopIdle == MainLoopEnv(IdleLines, CountdownStart, {FALSE}, {FALSE})

NextIdle ==
    \/ MainLoopIdle
    \/ Tick
    \/ SensorBatch
    \/ COMM_TxCpltCallback

SpecIdle == Init /\ [][NextIdle]_vars

\* C38: whenever the mode is Idle no burst session is active, so that the
\* transport sends no blocks and Telemetry_Pump is free to emit heartbeats
C38_IdleNoSession ==
    ctx.op_mode = "OP_MODE_IDLE" => ~g_bm.active

\* ------------------------------------------------------------------------
\* Transmissions of a block (C39, checked under SpecRetx)
\* ------------------------------------------------------------------------
\* C39: each block of a burst is transmitted at most 1 + max_retries times,
\* the retransmissions after a timeout and after a NACK_BLK counted
\* together, and the lines of a step carry no block whose ACK_BLK has been
\* processed.
C39_TransmissionsBounded ==
    /\ \A b \in 1 .. RetxBlocks : hist.sent[b] <= 1 + g_tb.max_retries
    /\ \A k \in 1 .. Len(tx) :
          tx[k].type = "BLOCK_HEADER" => tx[k].blk \notin hist.acked

\* a block has used all its transmissions, some after a NACK_BLK and some
\* after a timeout, and the other block has been acknowledged
C39_BudgetUsedUp ==
    \E b \in 1 .. RetxBlocks :
       /\ hist.sent[b] = 1 + g_tb.max_retries
       /\ hist.nack[b] > 0
       /\ hist.nack[b] < g_tb.max_retries
       /\ hist.acked # {}
       /\ b \notin hist.acked

====
